---------------------------- MODULE Spec2Model ----------------------------
(***************************************************************************)
(* zerokey: the credential vault (backend/vault.py), provider detection    *)
(* (backend/provider_detection.py), the crypto module                      *)
(* (backend/security.py) and the proxy dispatcher (backend/proxy.py) over  *)
(* the tables api_keys and usage_logs (backend/models.py).                 *)
(*                                                                         *)
(* Python strings are sequences of one-character strings, so that strip,   *)
(* lower, re.sub, startswith, slicing and concatenation are computed and   *)
(* not assumed.                                                            *)
(***************************************************************************)
EXTENDS Integers, Sequences, FiniteSets, TLC

VARIABLES
    api_keys,     \* table api_keys: a set of rows
    usage_logs,   \* table usage_logs: a set of rows
    key_seq,      \* last id given out by api_keys' primary key
    log_seq,      \* last id given out by usage_logs' primary key
    now,          \* the clock (func.now(), datetime.now(timezone.utc)), in ticks
    last,         \* the response of the last vault request (/keys)
    req,          \* the proxy requests in flight, one record per slot
    hist,         \* per owner, the creates and deletes that succeeded so far
    call,         \* the last direct call of a function: its argument and result
    txn           \* the /keys requests whose transaction is open, one per slot

vars == << api_keys, usage_logs, key_seq, log_seq, now, last, req, hist, call, txn >>

---------------------------------------------------------------------------
(* Bounds of the model.                                                    *)

MaxTime == 1         \* last tick of the clock
MaxReq == 1          \* proxy requests in flight at the same time
MaxKeys == 2         \* VaultSpec: rows api_keys has had when POST /keys stops
MaxProxyKeys == 1    \* Spec: the same
MaxProxyLogs == 2    \* Spec: rows usage_logs has had when proxy requests stop
MaxCascadeKeys == 2  \* CascadeSpec: as MaxKeys
MaxCascadeLogs == 2  \* CascadeSpec: as MaxProxyLogs
MaxCallKeys == 1     \* KeySpec: as MaxKeys
MaxDefaultKeys == 2  \* DefaultSpec: as MaxKeys
MaxDefaultLogs == 1  \* DefaultSpec: as MaxProxyLogs
MaxCorruptKeys == 1  \* CorruptSpec: as MaxKeys
MaxCorruptLogs == 1  \* CorruptSpec: as MaxProxyLogs
MaxLeakKeys == 1     \* LeakSpec: as MaxKeys
MaxLeakLogs == 1     \* LeakSpec: as MaxProxyLogs
MaxProviderKeys == 1 \* ProviderSpec: as MaxKeys
MaxProviderLogs == 1 \* ProviderSpec: as MaxProxyLogs
MaxAnonKeys == 2     \* AnonSpec: as MaxKeys
MaxAnonLogs == 1     \* AnonSpec: as MaxProxyLogs
MaxBodyKeys == 1     \* BodySpec: as MaxKeys
MaxBodyLogs == 1     \* BodySpec: as MaxProxyLogs
MaxTxn == 2          \* /keys requests with an open transaction at the same time
MaxTxnKeys == 1      \* TxnSpec: as MaxKeys
MaxTxnLogs == 1      \* TxnSpec: as MaxProxyLogs
MaxConcReq == 2      \* ConcSpec: proxy requests in flight at the same time
MaxConcKeys == 1     \* ConcSpec: as MaxKeys
MaxConcLogs == 2     \* ConcSpec: as MaxProxyLogs
MaxPolls == 3        \* PollSpec: polls of one prediction when polling stops
MaxPollKeys == 1     \* PollSpec: as MaxKeys
MaxPollLogs == 2     \* PollSpec: as MaxProxyLogs

---------------------------------------------------------------------------
(* Python str operations.                                                  *)

UpperChars == << "A","B","C","D","E","F","G","H","I","J","K","L","M",
                 "N","O","P","Q","R","S","T","U","V","W","X","Y","Z" >>
LowerChars == << "a","b","c","d","e","f","g","h","i","j","k","l","m",
                 "n","o","p","q","r","s","t","u","v","w","x","y","z" >>
DigitChars == { "0","1","2","3","4","5","6","7","8","9" }
Whitespace == { " ", "\t", "\n", "\r" }

Range(s) == { s[i] : i \in DOMAIN s }

UpperSet == Range(UpperChars)
AlnumSet == Range(UpperChars) \cup Range(LowerChars) \cup DigitChars

\* the class [a-zA-Z0-9] of the regular expression in _slugify
IsAlnum(c) == c \in AlnumSet

\* str.lower(), one character
LowerChar(c) ==
    IF c \in UpperSet
    THEN LowerChars[CHOOSE i \in DOMAIN UpperChars : UpperChars[i] = c]
    ELSE c

\* str.lower()
Lower(s) == [ i \in DOMAIN s |-> LowerChar(s[i]) ]

RECURSIVE LStrip(_, _)
LStrip(s, cs) ==
    IF s # << >> /\ Head(s) \in cs THEN LStrip(Tail(s), cs) ELSE s

RECURSIVE RStrip(_, _)
RStrip(s, cs) ==
    IF s # << >> /\ s[Len(s)] \in cs
    THEN RStrip(SubSeq(s, 1, Len(s) - 1), cs)
    ELSE s

\* str.strip() (cs = Whitespace) and str.strip(chars)
Strip(s, cs) == RStrip(LStrip(s, cs), cs)

\* str.startswith(prefix)
StartsWith(s, p) == Len(p) <= Len(s) /\ SubSeq(s, 1, Len(p)) = p

\* re.sub(r"[^a-zA-Z0-9]+", "-", s): every maximal run of characters outside
\* the class becomes one "-". inRun: the previous character was in a run.
RECURSIVE ReSubNonAlnum(_, _)
ReSubNonAlnum(s, inRun) ==
    IF s = << >> THEN << >>
    ELSE IF IsAlnum(Head(s)) THEN << Head(s) >> \o ReSubNonAlnum(Tail(s), FALSE)
    ELSE IF inRun THEN ReSubNonAlnum(Tail(s), TRUE)
    ELSE << "-" >> \o ReSubNonAlnum(Tail(s), TRUE)

---------------------------------------------------------------------------
(* backend/vault.py: helpers.                                              *)

StrKey == << "k","e","y" >>
StrStars == << "*","*","*","*" >>
StrApikeyDash == << "a","p","i","k","e","y","-" >>
StrProxyU == << "/","p","r","o","x","y","/","u","/" >>

\* slugify without .lower()
slugify_NoLower(value) ==
    LET clean == ReSubNonAlnum(Strip(value, Whitespace), FALSE)
        trimmed == Strip(clean, { "-" })
    IN  IF trimmed = << >> THEN StrKey ELSE trimmed

slugify(value) ==
    LET clean == ReSubNonAlnum(Lower(Strip(value, Whitespace)), FALSE)
        trimmed == Strip(clean, { "-" })
    IN  IF trimmed = << >> THEN StrKey ELSE trimmed

MaskKeep == 4
MaskMinLen == 8

\* a secret of exactly MaskMinLen characters shown like a longer one
mask_api_key_Lt(key) ==
    IF Len(key) < MaskMinLen THEN StrStars
    ELSE SubSeq(key, 1, MaskKeep) \o StrStars
         \o SubSeq(key, Len(key) - MaskKeep + 1, Len(key))

\* _mask_api_key
mask_api_key(key) ==
    IF Len(key) <= MaskMinLen THEN StrStars
    ELSE SubSeq(key, 1, MaskKeep) \o StrStars
         \o SubSeq(key, Len(key) - MaskKeep + 1, Len(key))

---------------------------------------------------------------------------
(* backend/provider_detection.py.                                          *)

PROVIDER_PREFIX_MAP ==
  << << <<"s","k","-","o","r","-">>, <<"o","p","e","n","r","o","u","t","e","r">> >>,
     << <<"s","k","-","a","n","t","-">>, <<"a","n","t","h","r","o","p","i","c">> >>,
     << <<"s","k","-">>, <<"o","p","e","n","a","i">> >>,
     << <<"A","I","z","a">>, <<"g","e","m","i","n","i">> >>,
     << <<"x","a","i","-">>, <<"g","r","o","k">> >>,
     << <<"g","s","k","_">>, <<"g","r","o","q">> >>,
     << <<"m","i","s","t","r","a","l","_">>, <<"m","i","s","t","r","a","l">> >>,
     << <<"t","o","g","e","t","h","e","r","_">>, <<"t","o","g","e","t","h","e","r">> >>,
     << <<"f","w","-">>, <<"f","i","r","e","w","o","r","k","s">> >>,
     << <<"a","s","-">>, <<"a","n","y","s","c","a","l","e">> >>,
     << <<"d","i","_">>, <<"d","e","e","p","i","n","f","r","a">> >>,
     << <<"n","e","b","-">>, <<"n","e","b","i","u","s">> >>,
     << <<"n","b","-">>, <<"n","e","b","i","u","s">> >>,
     << <<"c","o","_">>, <<"c","o","h","e","r","e">> >>,
     << <<"a","i","2","1","_">>, <<"a","i","2","1">> >>,
     << <<"a","a","_">>, <<"a","l","e","p","h","_","a","l","p","h","a">> >>,
     << <<"r","8","_">>, <<"r","e","p","l","i","c","a","t","e">> >>,
     << <<"b","t","_">>, <<"b","a","s","e","t","e","n">> >>,
     << <<"m","o","d","a","l","_">>, <<"m","o","d","a","l">> >>,
     << <<"h","f","_">>, <<"h","u","g","g","i","n","g","f","a","c","e">> >>,
     << <<"p","p","l","x","-">>, <<"p","e","r","p","l","e","x","i","t","y">> >>,
     << <<"d","s","_">>, <<"d","e","e","p","s","e","e","k">> >>,
     << <<"q","w","e","n","_">>, <<"q","w","e","n">> >>,
     << <<"g","l","m","_">>, <<"z","h","i","p","u">> >>,
     << <<"y","i","_">>, <<"0","1","a","i">> >> >>

\* a Python value passed for api_key: a str (s its characters), None, an
\* int (n) or a list (s its items)
PyStr(s) == [ type |-> "str", s |-> s, n |-> 0 ]
PyNone == [ type |-> "NoneType", s |-> << >>, n |-> 0 ]
PyInt(n) == [ type |-> "int", s |-> << >>, n |-> n ]
PyList(s) == [ type |-> "list", s |-> s, n |-> 0 ]

\* bool(v), the truth value "not api_key" tests
Truthy(v) ==
    CASE v.type = "NoneType" -> FALSE
      [] v.type = "int" -> v.n # 0
      [] OTHER -> v.s # << >>

\* what detect_provider comes to: the provider it returns, or the exception
\* it raises (its type in error, its message in msg)
Detected(provider) ==
    [ ok |-> TRUE, provider |-> provider, error |-> "", msg |-> "" ]
DetectRaises(error, msg) ==
    [ ok |-> FALSE, provider |-> << >>, error |-> error, msg |-> msg ]

\* the table with its entries in the opposite order
PrefixOrder_Reversed(hits) == CHOOSE i \in hits : \A j \in hits : i >= j

\* the entry that "for prefix, provider in PROVIDER_PREFIX_MAP.items()"
\* reaches first among those whose prefix the key starts with
PrefixOrder(hits) == CHOOSE i \in hits : \A j \in hits : i <= j

\* a key of no provider taken for the table's last-resort provider
detect_provider_Fallback(api_key) ==
    IF ~Truthy(api_key) \/ api_key.type # "str"
    THEN Detected(PROVIDER_PREFIX_MAP[3][2])
    ELSE LET k == Strip(api_key.s, Whitespace)
             hits == { i \in DOMAIN PROVIDER_PREFIX_MAP :
                         StartsWith(k, PROVIDER_PREFIX_MAP[i][1]) }
         IN  IF hits = {}
             THEN Detected(PROVIDER_PREFIX_MAP[3][2])
             ELSE Detected(PROVIDER_PREFIX_MAP[PrefixOrder(hits)][2])

\* detect_provider. The first entry of the table, in its order, whose prefix
\* the stripped key starts with; the message of the second ValueError names
\* the first five prefixes of the table.
detect_provider(api_key) ==
    IF ~Truthy(api_key) \/ api_key.type # "str"
    THEN DetectRaises("ValueError", "Invalid API key")
    ELSE LET k == Strip(api_key.s, Whitespace)
             hits == { i \in DOMAIN PROVIDER_PREFIX_MAP :
                         StartsWith(k, PROVIDER_PREFIX_MAP[i][1]) }
         IN  IF hits = {}
             THEN DetectRaises("ValueError",
                    "Could not detect provider from API key. Key should start with a known prefix like: sk-or-, sk-ant-, sk-, AIza, xai-...")
             ELSE Detected(PROVIDER_PREFIX_MAP[PrefixOrder(hits)][2])

---------------------------------------------------------------------------
(* backend/security.py: Fernet under the process-wide ENCRYPTION_KEY. A    *)
(* token carries the plaintext under a key and a tag that only the same    *)
(* key verifies; the random IV and the timestamp of a token are left out.  *)

ENCRYPTION_KEY == "k1"
\* a value ENCRYPTION_KEY had, or has elsewhere
OtherKey == "k2"

\* the printable ASCII characters in the order of their codes, from 32 on,
\* (the grave accent written U+0060), and a character outside ASCII (U+00E9,
\* two bytes in UTF-8)
AsciiChars ==
    << " ", "!", "\"", "#", "$", "%", "&", "'", "(", ")", "*", "+",
       ",", "-", ".", "/", "0", "1", "2", "3", "4", "5", "6", "7",
       "8", "9", ":", ";", "<", "=", ">", "?", "@", "A", "B", "C",
       "D", "E", "F", "G", "H", "I", "J", "K", "L", "M", "N", "O",
       "P", "Q", "R", "S", "T", "U", "V", "W", "X", "Y", "Z", "[",
       "\\", "]", "^", "_", "U+0060", "a", "b", "c", "d", "e", "f", "g",
       "h", "i", "j", "k", "l", "m", "n", "o", "p", "q", "r", "s",
       "t", "u", "v", "w", "x", "y", "z", "{", "|", "}", "~" >>
CharEAcute == "U+00E9"

Utf8Code ==
    [ c \in Range(AsciiChars) \cup { "\t", "\n", "\r" } |->
        CASE c = "\t" -> 9
          [] c = "\n" -> 10
          [] c = "\r" -> 13
          [] OTHER -> 31 + CHOOSE i \in DOMAIN AsciiChars : AsciiChars[i] = c ]

Utf8Char ==
    [ b \in { Utf8Code[c] : c \in DOMAIN Utf8Code } |->
        CHOOSE c \in DOMAIN Utf8Code : Utf8Code[c] = b ]

\* str.encode(): the UTF-8 bytes of a str
RECURSIVE StrEncode(_)
StrEncode(s) ==
    IF \A i \in DOMAIN s : s[i] \in DOMAIN Utf8Code
    THEN [ i \in DOMAIN s |-> Utf8Code[s[i]] ]
    ELSE (IF Head(s) = CharEAcute THEN << 195, 169 >> ELSE << Utf8Code[Head(s)] >>)
         \o StrEncode(Tail(s))

\* bytes.decode(): [ok |-> TRUE, s] or [ok |-> FALSE] (UnicodeDecodeError)
RECURSIVE BytesDecode(_)
BytesDecode(b) ==
    IF \A i \in DOMAIN b : b[i] \in DOMAIN Utf8Char
    THEN [ ok |-> TRUE, s |-> [ i \in DOMAIN b |-> Utf8Char[b[i]] ] ]
    ELSE IF Head(b) \in DOMAIN Utf8Char
    THEN LET rest == BytesDecode(Tail(b))
         IN  [ ok |-> rest.ok, s |-> << Utf8Char[Head(b)] >> \o rest.s ]
    ELSE IF Len(b) >= 2 /\ Head(b) = 195 /\ b[2] = 169
    THEN LET rest == BytesDecode(SubSeq(b, 3, Len(b)))
         IN  [ ok |-> rest.ok, s |-> << CharEAcute >> \o rest.s ]
    ELSE [ ok |-> FALSE, s |-> << >> ]

\* the HMAC of a token, over its bytes under its key
Tag(key, plain) == << "hmac", key, plain >>

\* Fernet(key).encrypt(data)
FernetEncrypt(key, data) == [ key |-> key, plain |-> data, tag |-> Tag(key, data) ]

\* Fernet(key).decrypt(token): [ok |-> TRUE, data] or [ok |-> FALSE]
\* (InvalidToken)
FernetDecrypt(key, token) ==
    IF token.key = key /\ token.tag = Tag(key, token.plain)
    THEN [ ok |-> TRUE, data |-> token.plain ]
    ELSE [ ok |-> FALSE, data |-> << >> ]

encrypt_api_key(plain_key) == FernetEncrypt(ENCRYPTION_KEY, StrEncode(plain_key))

\* what decrypt_api_key comes to: the plaintext it returns, or the exception
\* it raises
Decrypted(plain) == [ ok |-> TRUE, plain |-> plain, error |-> "" ]
DecryptRaises(error) == [ ok |-> FALSE, plain |-> << >>, error |-> error ]

\* InvalidToken swallowed, the empty string returned
decrypt_api_key_Swallow(encrypted) ==
    LET d == FernetDecrypt(ENCRYPTION_KEY, encrypted)
        s == BytesDecode(d.data)
    IN  IF ~d.ok THEN Decrypted(<< >>)
        ELSE IF s.ok THEN Decrypted(s.s)
        ELSE DecryptRaises("UnicodeDecodeError")

\* a token taken as it is, its HMAC not verified
decrypt_api_key_NoVerify(encrypted) ==
    LET s == BytesDecode(encrypted.plain)
    IN  IF s.ok THEN Decrypted(s.s) ELSE DecryptRaises("UnicodeDecodeError")

\* decrypt_api_key: InvalidToken is raised as ValueError("Invalid or
\* corrupted encrypted key"); the decode of the plaintext is outside the try
decrypt_api_key(encrypted) ==
    LET d == FernetDecrypt(ENCRYPTION_KEY, encrypted)
        s == BytesDecode(d.data)
    IN  IF ~d.ok THEN DecryptRaises("ValueError")
        ELSE IF s.ok THEN Decrypted(s.s)
        ELSE DecryptRaises("UnicodeDecodeError")

---------------------------------------------------------------------------
(* Inputs of the requests.                                                 *)

Owners == { 1, 2 }

NameMyKeyBang == << "M","y"," ","K","e","y","!" >>
NameMyKey == << "m","y","-","k","e","y" >>
NameBlank == << " ","!"," " >>
Names == { NameMyKeyBang, NameMyKey, NameBlank }

KeyGroqA == << "g","s","k","_","A","b","1","2","c","d","E","F","9" >>
KeyGroqB == << "g","s","k","_","Z","y","9","8" >>
KeyModal == << "m","o","d","a","l","_","t","o","k","1" >>
KeyUnknown == << "n","o","k","e","y" >>
RawKeys == { KeyGroqA, KeyGroqB, KeyModal, KeyUnknown }

\* raw secrets for the prefix table: one per entry (the prefix and a tail),
\* the same inside whitespace, and short ones: the prefix alone, and one of
\* eight characters
KeyTail == << "A","b","1","2","c","d" >>
PrefixKeys ==
    { PROVIDER_PREFIX_MAP[i][1] \o KeyTail : i \in DOMAIN PROVIDER_PREFIX_MAP }
PaddedKeys == { << " " >> \o k \o << "\n" >> : k \in PrefixKeys }
BareKeys ==
    { << "s","k","-" >>, << "s","k","-","o","r","-" >>, << "g","s","k","_" >>,
      KeyGroqB }
\* raw secrets of no provider: unrecognised, the prefix cut short, in the
\* wrong case, not at the start, empty and whitespace only
NoPrefixKeys ==
    { KeyUnknown, << "s","k" >>, << "S","K","-","A","b","1" >>,
      << "x","s","k","-","A","b","1" >>, << "g","s","k","A","b","1" >>,
      << >>, << " " >>, << " ","\t","\n" >> }
DetectKeys == PrefixKeys \cup PaddedKeys \cup BareKeys \cup NoPrefixKeys

\* raw secrets of zhipu, to be of the form id.secret: without a ".", with
\* one and with two
KeyZhipuNoDot == << "g","l","m","_","A","b","1","2","c","d" >>
KeyZhipuOk == << "g","l","m","_","i","d",".","s","e","c" >>
KeyZhipuDots == << "g","l","m","_","a",".","b",".","c" >>
LeakKeys == { KeyZhipuNoDot, KeyZhipuOk, KeyZhipuDots, KeyModal, KeyUnknown }

\* values that are no str
NonStrings == { PyNone, PyInt(0), PyInt(7), PyList(<< >>), PyList(<< "gsk_Ab12cdEF9" >>) }
DetectInputs == { PyStr(k) : k \in DetectKeys } \cup NonStrings

\* datetime or None: isnull for None; t the wall-clock reading; aware when
\* the datetime carries tzinfo (UTC), naive otherwise.
NoExpiry == [ isnull |-> TRUE, t |-> 0, aware |-> FALSE ]
Naive(t) == [ isnull |-> FALSE, t |-> t, aware |-> FALSE ]
Aware(t) == [ isnull |-> FALSE, t |-> t, aware |-> TRUE ]
ExpiryInputs == { NoExpiry } \cup { Naive(t) : t \in 1..MaxTime }
                             \cup { Aware(t) : t \in 1..MaxTime }

\* detect_provider and _slugify on the inputs above, evaluated once
DetectTable ==
    [ k \in RawKeys \cup DetectKeys \cup LeakKeys |-> detect_provider(PyStr(k)) ]
SlugTable ==
    [ v \in Names \cup { PROVIDER_PREFIX_MAP[i][2] : i \in DOMAIN PROVIDER_PREFIX_MAP }
        |-> slugify(v) ]

Detect(key) == IF key \in DOMAIN DetectTable THEN DetectTable[key] ELSE detect_provider(PyStr(key))
Slug(value) == IF value \in DOMAIN SlugTable THEN SlugTable[value] ELSE slugify(value)

---------------------------------------------------------------------------
(* backend/vault.py: the /keys handlers. Each handler is one transaction.  *)

\* expires_at.replace(tzinfo=timezone.utc) of a naive datetime
ReplaceTzUtc(e) == [ e EXCEPT !.aware = TRUE ]

\* add_key, lines 59-62: the unified secret and the stored expiry
UnifiedPlain(provider_slug, name_slug) ==
    StrApikeyDash \o provider_slug \o << "-" >> \o name_slug

UnifiedEndpoint(provider_slug, name_slug) ==
    StrProxyU \o provider_slug \o << "/" >> \o name_slug

NormalizeExpiry(e) ==
    IF ~e.isnull /\ ~e.aware THEN ReplaceTzUtc(e) ELSE e

\* the unified secret derived from the raw secret too
NewApiKey_UnifiedFromKey(id, u, provider_slug, name, name_slug, key, exp, created) ==
    [ id |-> id,
      user_id |-> u,
      api_provider |-> provider_slug,
      name |-> Strip(name, Whitespace),
      name_slug |-> name_slug,
      encrypted_key |-> encrypt_api_key(key),
      unified_key_encrypted |->
          encrypt_api_key(UnifiedPlain(provider_slug, name_slug) \o key),
      unified_endpoint |-> UnifiedEndpoint(provider_slug, name_slug),
      expires_at |-> NormalizeExpiry(exp),
      created_at |-> created ]

\* models.ApiKey(...) as add_key builds it; id and created_at come from the
\* database at the insert.
NewApiKey(id, u, provider_slug, name, name_slug, key, exp, created) ==
    [ id |-> id,
      user_id |-> u,
      api_provider |-> provider_slug,
      name |-> Strip(name, Whitespace),
      name_slug |-> name_slug,
      encrypted_key |-> encrypt_api_key(key),
      unified_key_encrypted |->
          encrypt_api_key(UnifiedPlain(provider_slug, name_slug)),
      unified_endpoint |-> UnifiedEndpoint(provider_slug, name_slug),
      expires_at |-> NormalizeExpiry(exp),
      created_at |-> created ]

\* the query of add_key for an existing row of the same owner, provider and
\* name slug
ExistingKeys(u, provider_slug, name_slug) ==
    { k \in api_keys : /\ k.user_id = u
                       /\ k.api_provider = provider_slug
                       /\ k.name_slug = name_slug }

\* schemas.ApiKeyOut; unified is the unified_api_key the handler passes
ApiKeyOut(k, masked, unified) ==
    [ id |-> k.id, provider |-> k.api_provider, name |-> k.name,
      created_at |-> k.created_at, expires_at |-> k.expires_at,
      api_key |-> masked, unified_api_key |-> unified,
      unified_endpoint |-> k.unified_endpoint ]

\* the response of a /keys handler, with the request it answers: the owner,
\* the name (POST) or the key_id (DELETE) asked for
VaultResponse(op, u, name, key_id, status, detail, keys) ==
    [ op |-> op, user |-> u, name |-> name, key_id |-> key_id,
      status |-> status, detail |-> detail, keys |-> keys ]

Count(h, u, field) == [ h EXCEPT ![u][field] = @ + 1 ]

\* POST /keys
add_key(u, name, key, exp) ==
    LET d == Detect(key)
        provider_slug == Slug(d.provider)
        name_slug == Slug(name)
        db_key == NewApiKey(key_seq + 1, u, provider_slug, name, name_slug,
                            key, exp, now)
        decrypted == decrypt_api_key(db_key.encrypted_key)
    IN  /\ IF ~d.ok
           THEN /\ last' = VaultResponse("add", u, name, 0, 400, d.msg, << >>)
                /\ UNCHANGED << api_keys, key_seq, hist >>
           ELSE IF ExistingKeys(u, provider_slug, name_slug) # {}
           THEN /\ last' = VaultResponse("add", u, name, 0, 400,
                              "Key name already exists for this provider", << >>)
                /\ UNCHANGED << api_keys, key_seq, hist >>
           ELSE /\ api_keys' = api_keys \cup { db_key }
                /\ key_seq' = key_seq + 1
                /\ hist' = Count(hist, u, "created")
                /\ last' = IF decrypted.ok
                           THEN VaultResponse("add", u, name, db_key.id, 201, "",
                                  << ApiKeyOut(db_key,
                                        mask_api_key(decrypted.plain),
                                        UnifiedPlain(provider_slug, name_slug)) >>)
                           ELSE VaultResponse("add", u, name, db_key.id, 500,
                                  "Internal Server Error", << >>)
        /\ UNCHANGED << usage_logs, log_seq, now, req, call, txn >>

\* the orders .order_by(created_at.desc()).all() can return rows in: every
\* arrangement of the rows with created_at never increasing (rows of equal
\* created_at come in an order the database chooses)
OrderedNewestFirst(rows) ==
    { s \in [ 1..Cardinality(rows) -> rows ] :
        /\ \A i, j \in DOMAIN s : i # j => s[i] # s[j]
        /\ \A i, j \in DOMAIN s : i < j => s[i].created_at >= s[j].created_at }

\* list_keys without the filter on user_id
list_keys_AllOwners(u) ==
    /\ \E keys \in OrderedNewestFirst(api_keys) :
          last' = VaultResponse("list", u, << >>, 0, 200, "",
                    [ i \in DOMAIN keys |->
                        ApiKeyOut(keys[i],
                           mask_api_key(decrypt_api_key(keys[i].encrypted_key).plain),
                           decrypt_api_key(keys[i].unified_key_encrypted).plain) ])
    /\ UNCHANGED << api_keys, usage_logs, key_seq, log_seq, now, req, hist,
                    call, txn >>

\* GET /keys
list_keys(u) ==
    LET rows == { k \in api_keys : k.user_id = u }
    IN  /\ \E keys \in OrderedNewestFirst(rows) :
              LET decOk == \A i \in DOMAIN keys :
                              /\ decrypt_api_key(keys[i].encrypted_key).ok
                              /\ decrypt_api_key(keys[i].unified_key_encrypted).ok
                  out == [ i \in DOMAIN keys |->
                             ApiKeyOut(keys[i],
                                mask_api_key(decrypt_api_key(keys[i].encrypted_key).plain),
                                decrypt_api_key(keys[i].unified_key_encrypted).plain) ]
              IN  last' = IF decOk
                          THEN VaultResponse("list", u, << >>, 0, 200, "", out)
                          ELSE VaultResponse("list", u, << >>, 0, 500,
                                 "Internal Server Error", << >>)
        /\ UNCHANGED << api_keys, usage_logs, key_seq, log_seq, now, req, hist,
                        call, txn >>

\* delete_key without the delete of the usage rows
delete_key_NoCascade(u, key_id) ==
    LET found == { k \in api_keys : k.id = key_id /\ k.user_id = u }
    IN  /\ IF found = {}
           THEN /\ last' = VaultResponse("delete", u, << >>, key_id, 404,
                              "Key not found or not owned by you", << >>)
                /\ UNCHANGED << api_keys, hist >>
           ELSE /\ api_keys' = api_keys \ found
                /\ hist' = Count(hist, u, "deleted")
                /\ last' = VaultResponse("delete", u, << >>, key_id, 204, "", << >>)
        /\ UNCHANGED << usage_logs, key_seq, log_seq, now, req, call, txn >>

\* delete_key without the filter on user_id
delete_key_AnyOwner(u, key_id) ==
    LET found == { k \in api_keys : k.id = key_id }
    IN  /\ IF found = {}
           THEN /\ last' = VaultResponse("delete", u, << >>, key_id, 404,
                              "Key not found or not owned by you", << >>)
                /\ UNCHANGED << api_keys, usage_logs, hist >>
           ELSE /\ usage_logs' = { l \in usage_logs : l.api_key_id # key_id }
                /\ api_keys' = api_keys \ found
                /\ hist' = Count(hist, u, "deleted")
                /\ last' = VaultResponse("delete", u, << >>, key_id, 204, "", << >>)
        /\ UNCHANGED << key_seq, log_seq, now, req, call, txn >>

\* DELETE /keys/{key_id}
delete_key(u, key_id) ==
    LET found == { k \in api_keys : k.id = key_id /\ k.user_id = u }
    IN  /\ IF found = {}
           THEN /\ last' = VaultResponse("delete", u, << >>, key_id, 404,
                              "Key not found or not owned by you", << >>)
                /\ UNCHANGED << api_keys, usage_logs, hist >>
           ELSE /\ usage_logs' = { l \in usage_logs : l.api_key_id # key_id }
                /\ api_keys' = api_keys \ found
                /\ hist' = Count(hist, u, "deleted")
                /\ last' = VaultResponse("delete", u, << >>, key_id, 204, "", << >>)
        /\ UNCHANGED << key_seq, log_seq, now, req, call, txn >>

---------------------------------------------------------------------------
(* backend/vault.py and backend/database.py: the handlers of POST /keys    *)
(* and DELETE /keys/{key_id} statement by statement. The session of a      *)
(* request (get_db) reads what is committed, keeps its own writes until    *)
(* db.commit() and loses them when it is closed without one.               *)

TxnIds == 1..MaxTxn

\* pc: idle; added (add_key is past db.add, line 75); found (delete_key has
\* loaded the row, line 130); cascaded (the DELETE of the usage rows is
\* executed, line 136, and not committed); ended. deleted_logs: the usage
\* rows the DELETE removed in the session
IdleTxn ==
    [ pc |-> "idle", op |-> "none", user |-> 0, name |-> << >>, key |-> << >>,
      exp |-> NoExpiry, key_id |-> 0, deleted_logs |-> {}, status |-> 0 ]

TxnAccepts(t) == txn[t].pc \in { "idle", "ended" }

EndTxn(x, status) == [ x EXCEPT !.pc = "ended", !.status = status ]

TxnChange == UNCHANGED << now, req, call >>

\* add_key, lines 38-75: up to db.add(db_key)
add_key_check(t, u, name, key, exp) ==
    LET d == Detect(key)
        provider_slug == Slug(d.provider)
        name_slug == Slug(name)
        x == [ IdleTxn EXCEPT !.op = "add", !.user = u, !.name = name,
                              !.key = key, !.exp = exp ]
    IN  /\ TxnAccepts(t)
        /\ IF ~d.ok
           THEN /\ last' = VaultResponse("add", u, name, 0, 400, d.msg, << >>)
                /\ txn' = [ txn EXCEPT ![t] = EndTxn(x, 400) ]
           ELSE IF ExistingKeys(u, provider_slug, name_slug) # {}
           THEN /\ last' = VaultResponse("add", u, name, 0, 400,
                              "Key name already exists for this provider", << >>)
                /\ txn' = [ txn EXCEPT ![t] = EndTxn(x, 400) ]
           ELSE /\ txn' = [ txn EXCEPT ![t] = [ x EXCEPT !.pc = "added" ] ]
                /\ UNCHANGED last
        /\ UNCHANGED << api_keys, usage_logs, key_seq, log_seq, hist >>
        /\ TxnChange

\* add_key, lines 76-90: db.commit() sends the INSERT. The constraint
\* uq_user_provider_name (models.py, line 30) refuses it when a row of the
\* same owner, provider and name slug has been committed since the query of
\* lines 47-55: IntegrityError, which add_key does not catch
add_key_commit(t) ==
    LET x == txn[t]
        provider_slug == Slug(Detect(x.key).provider)
        name_slug == Slug(x.name)
        db_key == NewApiKey(key_seq + 1, x.user, provider_slug, x.name,
                            name_slug, x.key, x.exp, now)
    IN  /\ x.pc = "added"
        /\ IF ExistingKeys(x.user, provider_slug, name_slug) # {}
           THEN /\ last' = VaultResponse("add", x.user, x.name, 0, 500,
                              "Internal Server Error", << >>)
                /\ txn' = [ txn EXCEPT ![t] = EndTxn(x, 500) ]
                /\ UNCHANGED << api_keys, key_seq, hist >>
           ELSE /\ api_keys' = api_keys \cup { db_key }
                /\ key_seq' = key_seq + 1
                /\ hist' = Count(hist, x.user, "created")
                /\ txn' = [ txn EXCEPT ![t] = EndTxn([ x EXCEPT !.key_id = db_key.id ], 201) ]
                /\ last' = VaultResponse("add", x.user, x.name, db_key.id, 201, "",
                              << ApiKeyOut(db_key,
                                    mask_api_key(decrypt_api_key(db_key.encrypted_key).plain),
                                    UnifiedPlain(provider_slug, name_slug)) >>)
        /\ UNCHANGED << usage_logs, log_seq >>
        /\ TxnChange

\* delete_key, lines 126-133
delete_key_find(t, u, key_id) ==
    LET found == { k \in api_keys : k.id = key_id /\ k.user_id = u }
        x == [ IdleTxn EXCEPT !.op = "delete", !.user = u, !.key_id = key_id ]
    IN  /\ TxnAccepts(t)
        /\ IF found = {}
           THEN /\ last' = VaultResponse("delete", u, << >>, key_id, 404,
                              "Key not found or not owned by you", << >>)
                /\ txn' = [ txn EXCEPT ![t] = EndTxn(x, 404) ]
           ELSE /\ txn' = [ txn EXCEPT ![t] = [ x EXCEPT !.pc = "found" ] ]
                /\ UNCHANGED last
        /\ UNCHANGED << api_keys, usage_logs, key_seq, log_seq, hist >>
        /\ TxnChange

\* the DELETE of the usage rows committed on its own
delete_key_cascade_Autocommit(t) ==
    LET x == txn[t]
        rows == { l \in usage_logs : l.api_key_id = x.key_id }
    IN  /\ x.pc = "found"
        /\ txn' = [ txn EXCEPT ![t] = [ x EXCEPT !.pc = "cascaded",
                                                 !.deleted_logs = {} ] ]
        /\ usage_logs' = usage_logs \ rows
        /\ UNCHANGED << api_keys, key_seq, log_seq, last, hist >>
        /\ TxnChange

\* delete_key, line 136: the DELETE of the usage rows, in the session
delete_key_cascade(t) ==
    LET x == txn[t]
        rows == { l \in usage_logs : l.api_key_id = x.key_id }
    IN  /\ x.pc = "found"
        /\ txn' = [ txn EXCEPT ![t] = [ x EXCEPT !.pc = "cascaded",
                                                 !.deleted_logs = rows ] ]
        /\ UNCHANGED << api_keys, usage_logs, key_seq, log_seq, last, hist >>
        /\ TxnChange

\* delete_key, lines 138-140: db.delete(key); db.commit(). The DELETE of
\* the row finds no row when another request has deleted it
\* (StaleDataError), and is refused by the foreign key of usage_logs when a
\* usage row of the credential was committed after line 136, which only a
\* database that locks rows and not the file lets happen (PostgreSQL);
\* neither is caught
delete_key_commit(t) ==
    LET x == txn[t]
        found == { k \in api_keys : k.id = x.key_id }
        later == { l \in usage_logs : l.api_key_id = x.key_id } \ x.deleted_logs
    IN  /\ x.pc = "cascaded"
        /\ IF found = {} \/ later # {}
           THEN /\ last' = VaultResponse("delete", x.user, << >>, x.key_id, 500,
                              "Internal Server Error", << >>)
                /\ txn' = [ txn EXCEPT ![t] = EndTxn(x, 500) ]
                /\ UNCHANGED << api_keys, usage_logs, hist >>
           ELSE /\ usage_logs' = usage_logs \ x.deleted_logs
                /\ api_keys' = api_keys \ found
                /\ hist' = Count(hist, x.user, "deleted")
                /\ txn' = [ txn EXCEPT ![t] = EndTxn(x, 204) ]
                /\ last' = VaultResponse("delete", x.user, << >>, x.key_id, 204, "", << >>)
        /\ UNCHANGED << key_seq, log_seq >>
        /\ TxnChange

\* a statement or db.commit() raises (OperationalError: the database is
\* locked or not reachable): the handler ends with 500 and get_db closes
\* the session (database.py, lines 23-24), which drops what it has not
\* committed
Rollback(t) ==
    LET x == txn[t]
    IN  /\ x.pc \in { "added", "found", "cascaded" }
        /\ last' = VaultResponse(x.op, x.user, x.name, x.key_id, 500,
                       "Internal Server Error", << >>)
        /\ txn' = [ txn EXCEPT ![t] = EndTxn(x, 500) ]
        /\ UNCHANGED << api_keys, usage_logs, key_seq, log_seq, hist >>
        /\ TxnChange

\* the clock advances
Tick ==
    /\ now < MaxTime
    /\ now' = now + 1
    /\ UNCHANGED << api_keys, usage_logs, key_seq, log_seq, last, req, hist,
                    call, txn >>

---------------------------------------------------------------------------
(* backend/proxy.py: inputs of a proxy request and answers of an upstream. *)

\* an optional header: None, or its value
NoHeader == [ isnull |-> TRUE, v |-> << >> ]
Header(v) == [ isnull |-> FALSE, v |-> v ]

\* the names of the handler's header parameters and of the headers a caller
\* sends; header names compare without case
StrXApiKeyParam == << "x","_","a","p","i","_","k","e","y" >>
StrAuthorizationParam == << "a","u","t","h","o","r","i","z","a","t","i","o","n" >>
StrXApiKeyHeader == << "X","-","A","P","I","-","K","e","y" >>
StrAuthorizationHeader == << "A","u","t","h","o","r","i","z","a","t","i","o","n" >>

\* the header a parameter declared with Header(...) is read from: the
\* parameter's name, its underscores turned into hyphens unless
\* convert_underscores=False
HeaderAlias(param_name, convert_underscores) ==
    IF convert_underscores
    THEN [ i \in DOMAIN param_name |->
             IF param_name[i] = "_" THEN "-" ELSE param_name[i] ]
    ELSE param_name

\* the value the parameter gets from the headers of a request, a function
\* from the names sent to their values; None when no header of that name
\* was sent
HeaderParam(headers, param_name, convert_underscores) ==
    LET alias == Lower(HeaderAlias(param_name, convert_underscores))
        sent == { n \in DOMAIN headers : Lower(n) = alias /\ ~headers[n].isnull }
    IN  IF sent = {} THEN NoHeader ELSE headers[CHOOSE n \in sent : TRUE]

StrBearerSp == << "b","e","a","r","e","r"," " >>
StrBearerCap == << "B","e","a","r","e","r"," " >>
StrBasicCap == << "B","a","s","i","c"," " >>
StrGroq == << "g","r","o","q" >>
StrGroqCap == << "G","r","o","q" >>
StrModal == << "m","o","d","a","l" >>
StrZhipu == << "z","h","i","p","u" >>
StrGemini == << "g","e","m","i","n","i" >>
StrMyKey == << "m","y","-","k","e","y" >>
StrReplicate == << "r","e","p","l","i","c","a","t","e" >>

\* the request body: valid is whether request.json() parses it, isobj
\* whether it is a JSON object, model its "model" member ("" when absent)
BodyInvalid == [ valid |-> FALSE, isobj |-> FALSE, model |-> "" ]
BodyChat == [ valid |-> TRUE, isobj |-> TRUE, model |-> "groq/compound-mini" ]
BodyNoModel == [ valid |-> TRUE, isobj |-> TRUE, model |-> "" ]
BodyArray == [ valid |-> TRUE, isobj |-> FALSE, model |-> "" ]

\* body.get("model", "unknown")
BodyModel(body) == IF body.model = "" THEN "unknown" ELSE body.model

\* bodies an upstream answers with
TextChat == "{\"id\":\"c1\",\"usage\":{\"total_tokens\":7}}"
TextNoUsage == "{\"id\":\"c1\"}"
TextUsageNull == "{\"id\":\"c1\",\"usage\":null}"
TextArray == "[1]"
TextHtml == "<html>Bad Gateway</html>"
TextError == "{\"error\":\"invalid api key\"}"
\* bodies replicate answers with: a prediction in each status, and one
\* without an id
TextStarting == "{\"id\":\"p1\",\"status\":\"starting\"}"
TextProcessing == "{\"id\":\"p1\",\"status\":\"processing\"}"
TextSucceeded == "{\"id\":\"p1\",\"status\":\"succeeded\"}"
TextFailed == "{\"id\":\"p1\",\"status\":\"failed\"}"
TextCanceled == "{\"id\":\"p1\",\"status\":\"canceled\"}"
TextNoId == "{\"status\":\"starting\"}"

\* resp.json(): ok is whether the text parses; for an object, usage is
\* "absent", "object" or "other", and total is usage.total_tokens (-1 when
\* that member is absent)
JsonValue(ok, isobj, id, usage, total) ==
    [ ok |-> ok, isobj |-> isobj, id |-> id, usage |-> usage, total |-> total ]

ParseJson(text) ==
    CASE text = TextChat -> JsonValue(TRUE, TRUE, "c1", "object", 7)
      [] text = TextNoUsage -> JsonValue(TRUE, TRUE, "c1", "absent", -1)
      [] text = TextUsageNull -> JsonValue(TRUE, TRUE, "c1", "other", -1)
      [] text = TextArray -> JsonValue(TRUE, FALSE, "", "absent", -1)
      [] text = TextError -> JsonValue(TRUE, TRUE, "error", "absent", -1)
      [] text \in { TextStarting, TextProcessing, TextSucceeded, TextFailed,
                    TextCanceled } -> JsonValue(TRUE, TRUE, "p1", "absent", -1)
      [] text = TextNoId -> JsonValue(TRUE, TRUE, "", "absent", -1)
      [] OTHER -> JsonValue(FALSE, FALSE, "", "absent", -1)

NullJson == JsonValue(FALSE, FALSE, "", "absent", -1)

\* data.get("status") of a parsed answer: "" for None
PredictionStatus(text) ==
    CASE text \in { TextStarting, TextNoId } -> "starting"
      [] text = TextProcessing -> "processing"
      [] text = TextSucceeded -> "succeeded"
      [] text = TextFailed -> "failed"
      [] text = TextCanceled -> "canceled"
      [] OTHER -> ""

\* _run_replicate, line 246
TerminalStatuses == { "succeeded", "failed", "canceled" }

\* requests.Response: raised marks requests.post raising instead of answering
Response(status_code, text) ==
    [ raised |-> FALSE, status_code |-> status_code, text |-> text ]
Raised == [ raised |-> TRUE, status_code |-> 0, text |-> "" ]

\* resp.ok
RespOk(resp) == resp.status_code < 400

\* resp.json().get("usage", {}).get("total_tokens", 0) if resp.ok else 0:
\* [ok |-> FALSE] when the expression raises
TotalTokens(resp) ==
    IF ~RespOk(resp) THEN [ ok |-> TRUE, n |-> 0 ]
    ELSE LET j == ParseJson(resp.text)
         IN  IF ~j.ok \/ ~j.isobj THEN [ ok |-> FALSE, n |-> 0 ]
             ELSE IF j.usage = "absent" THEN [ ok |-> TRUE, n |-> 0 ]
             ELSE IF j.usage # "object" THEN [ ok |-> FALSE, n |-> 0 ]
             ELSE [ ok |-> TRUE, n |-> IF j.total < 0 THEN 0 ELSE j.total ]

\* the providers _proxy_request has a branch for
ProxyBranches ==
  { <<"o","p","e","n","a","i">>,
    <<"g","r","o","q">>,
    <<"a","n","t","h","r","o","p","i","c">>,
    <<"g","e","m","i","n","i">>,
    <<"o","p","e","n","r","o","u","t","e","r">>,
    <<"m","i","s","t","r","a","l">>,
    <<"t","o","g","e","t","h","e","r">>,
    <<"f","i","r","e","w","o","r","k","s">>,
    <<"a","n","y","s","c","a","l","e">>,
    <<"d","e","e","p","i","n","f","r","a">>,
    <<"n","e","b","i","u","s">>,
    <<"c","o","h","e","r","e">>,
    <<"a","i","2","1">>,
    <<"p","e","r","p","l","e","x","i","t","y">>,
    <<"d","e","e","p","s","e","e","k">>,
    <<"q","w","e","n">>,
    <<"z","h","i","p","u">>,
    <<"0","1","a","i">>,
    <<"g","r","o","k">>,
    <<"a","l","e","p","h","_","a","l","p","h","a">>,
    <<"r","e","p","l","i","c","a","t","e">>,
    <<"b","a","s","e","t","e","n">>,
    <<"h","u","g","g","i","n","g","f","a","c","e">> }

\* _run_zhipu: id, secret = api_key.split('.') raises unless the key has
\* exactly one "."
ZhipuKeyOk(api_key) == Cardinality({ i \in DOMAIN api_key : api_key[i] = "." }) = 1

\* _run_zhipu, line 188: the detail built from str(e), the message of the
\* ValueError the unpacking of api_key.split('.') raises
ZhipuJwtError(api_key) ==
    IF Cardinality({ i \in DOMAIN api_key : api_key[i] = "." }) = 0
    THEN "Failed to generate JWT for Zhipu: not enough values to unpack (expected 2, got 1)"
    ELSE "Failed to generate JWT for Zhipu: too many values to unpack (expected 2)"

---------------------------------------------------------------------------
(* backend/proxy.py: the three handlers and _proxy_request. A request      *)
(* holds a slot of req from its arrival to its response; the slot keeps    *)
(* the response until the next request takes it.                           *)

ReqIds == 1..MaxReq

\* the header names a request may carry, none of them sent
SentHeaderNames == { StrXApiKeyHeader, StrXApiKeyParam, StrAuthorizationHeader }
NoHeaders == [ n \in SentHeaderNames |-> NoHeader ]

NullKey ==
    [ id |-> 0, user_id |-> 0, api_provider |-> << >>, name |-> << >>,
      name_slug |-> << >>, encrypted_key |-> encrypt_api_key(<< >>),
      unified_key_encrypted |-> encrypt_api_key(<< >>),
      unified_endpoint |-> << >>, expires_at |-> NoExpiry, created_at |-> 0 ]

\* pc: idle, resolved, notexpired, parsed, decrypted, polling, dispatched,
\* logged, done
\* logs: usage records this request has committed; calls: outbound calls it
\* has made; dec: it has reached the decrypt of the raw secret; polls: the
\* passes of the loop of _run_replicate it has made
IdleReq ==
    [ pc |-> "idle", route |-> "none", user |-> 0, provider |-> << >>,
      name_slug |-> << >>, headers |-> NoHeaders,
      x_api_key |-> NoHeader, authorization |-> NoHeader,
      body |-> BodyInvalid, key_record |-> NullKey, api_key |-> << >>,
      resp |-> Raised, status |-> 0, detail |-> "", json |-> NullJson,
      logs |-> 0, calls |-> 0, dec |-> FALSE, polls |-> 0 ]

NewReq(route, u, provider, name_slug, xk, auth, body) ==
    [ IdleReq EXCEPT !.route = route, !.user = u, !.provider = provider,
                     !.name_slug = name_slug, !.x_api_key = xk,
                     !.authorization = auth, !.body = body ]

\* raise HTTPException(status, detail), or an unhandled exception (500)
Fail(q, status, detail) ==
    [ q EXCEPT !.pc = "done", !.status = status, !.detail = detail ]

Accepts(r) == req[r].pc \in { "idle", "done" }

\* what the ORM loads from the column expires_at, DateTime(timezone=True):
\* the aware datetime where the database keeps time zones (PostgreSQL), the
\* same reading without tzinfo where it does not (SQLite, the default
\* DATABASE_URL)
ColumnLoad(e) ==
    IF e.isnull THEN { e } ELSE { e, [ e EXCEPT !.aware = FALSE ] }

LoadKey(k) == { [ k EXCEPT !.expires_at = e ] : e \in ColumnLoad(k.expires_at) }

\* _find_key_by_name without the filter on user_id
find_key_by_name_NoOwner(provider, name_slug, user_id) ==
    { k \in api_keys : /\ k.api_provider = provider
                       /\ k.name_slug = name_slug }

\* _find_key_by_name: the rows q.first() can return
find_key_by_name(provider, name_slug, user_id) ==
    { k \in api_keys : /\ k.api_provider = provider
                       /\ k.name_slug = name_slug
                       /\ (user_id # 0 => k.user_id = user_id) }

\* the rows .order_by(created_at.desc()).first() can return in
\* proxy_request_default
NewestOf(rows) ==
    { k \in rows : \A o \in rows : k.created_at >= o.created_at }

UnresolvedChange ==
    UNCHANGED << api_keys, usage_logs, key_seq, log_seq, now, last, hist,
                 call, txn >>

\* POST /proxy/{provider}/{name_slug}, up to the call of _proxy_request
proxy_request_named(r, u, provider, name_slug, body) ==
    LET p == Lower(provider)
        q == NewReq("named", u, p, name_slug, NoHeader, NoHeader, body)
        found == find_key_by_name(p, name_slug, u)
    IN  /\ Accepts(r)
        /\ IF found = {}
           THEN req' = [ req EXCEPT ![r] = Fail(q, 404, "No key named") ]
           ELSE \E k \in found : \E kr \in LoadKey(k) :
                  req' = [ req EXCEPT ![r] =
                             [ q EXCEPT !.pc = "resolved", !.key_record = kr ] ]
        /\ UnresolvedChange

\* POST /proxy/{provider}, up to the call of _proxy_request
proxy_request_default(r, u, provider, body) ==
    LET p == Lower(provider)
        q == NewReq("default", u, p, << >>, NoHeader, NoHeader, body)
        found == NewestOf({ k \in api_keys : k.user_id = u /\ k.api_provider = p })
    IN  /\ Accepts(r)
        /\ IF found = {}
           THEN req' = [ req EXCEPT ![r] = Fail(q, 404, "No key found for user") ]
           ELSE \E k \in found : \E kr \in LoadKey(k) :
                  req' = [ req EXCEPT ![r] =
                             [ q EXCEPT !.pc = "resolved", !.key_record = kr ] ]
        /\ UnresolvedChange

\* the inputs of proxy requests
ProviderParams == { StrGroqCap, StrModal }
NameParams == { StrMyKey }
Bodies == { BodyInvalid, BodyChat }
Secrets == { UnifiedPlain(StrGroq, StrMyKey), UnifiedPlain(StrModal, StrMyKey) }
XApiKeys == { NoHeader, Header(UnifiedPlain(StrGroq, StrMyKey)) }
Authorizations ==
    { NoHeader, Header(StrBearerCap),
      Header(StrBasicCap \o UnifiedPlain(StrGroq, StrMyKey)),
      Header(StrBearerSp \o UnifiedPlain(StrGroq, StrMyKey)) }
    \cup { Header(StrBearerCap \o s) : s \in Secrets }
RequestHeaders ==
    { [ n \in SentHeaderNames |->
          IF n = StrXApiKeyHeader THEN xd
          ELSE IF n = StrXApiKeyParam THEN xu ELSE auth ] :
      xd \in XApiKeys, xu \in XApiKeys, auth \in Authorizations }

\* the parameters x_api_key and authorization of proxy_unified (line 395,
\* line 396) for each of the requests' headers
BoundHeaders ==
    [ headers \in RequestHeaders |->
        [ x_api_key |-> HeaderParam(headers, StrXApiKeyParam, FALSE),
          authorization |-> HeaderParam(headers, StrAuthorizationParam, TRUE) ] ]

\* the same for the headers of any request
BindHeaders(headers) ==
    IF headers \in DOMAIN BoundHeaders THEN BoundHeaders[headers]
    ELSE [ x_api_key |-> HeaderParam(headers, StrXApiKeyParam, FALSE),
           authorization |-> HeaderParam(headers, StrAuthorizationParam, TRUE) ]

\* the Authorization header compared whole, scheme included
ProvidedKey_WholeHeader(xk, auth) ==
    IF ~xk.isnull /\ xk.v # << >> THEN xk.v
    ELSE IF ~auth.isnull /\ auth.v # << >> /\ StartsWith(Lower(auth.v), StrBearerSp)
    THEN auth.v
    ELSE << >>

\* proxy_unified, lines 403-405: the secret the caller presents; << >> for
\* None and for the empty string, which "not provided_key" treats alike
ProvidedKey(xk, auth) ==
    IF ~xk.isnull /\ xk.v # << >> THEN xk.v
    ELSE IF ~auth.isnull /\ auth.v # << >> /\ StartsWith(Lower(auth.v), StrBearerSp)
    THEN SubSeq(auth.v, Len(StrBearerSp) + 1, Len(auth.v))
    ELSE << >>

\* POST /proxy/u/{provider}/{name_slug}, up to the call of _proxy_request
proxy_unified(r, provider, name_slug, headers, body) ==
    LET p == Lower(provider)
        xk == BindHeaders(headers).x_api_key
        auth == BindHeaders(headers).authorization
        q == [ NewReq("unified", 0, p, name_slug, xk, auth, body)
                 EXCEPT !.headers = headers ]
        found == find_key_by_name(p, name_slug, 0)
        provided_key == ProvidedKey(xk, auth)
    IN  /\ Accepts(r)
        /\ IF found = {}
           THEN req' = [ req EXCEPT ![r] = Fail(q, 404, "Unified key not found") ]
           ELSE \E k \in found : \E kr \in LoadKey(k) :
                  LET stored_unified == decrypt_api_key(kr.unified_key_encrypted)
                      qk == [ q EXCEPT !.key_record = kr ]
                  IN  req' = [ req EXCEPT ![r] =
                        IF provided_key = << >>
                        THEN Fail(qk, 401, "Missing API key")
                        ELSE IF ~stored_unified.ok
                        THEN Fail(qk, 500, "Internal Server Error")
                        ELSE IF stored_unified.plain # provided_key
                        THEN Fail(qk, 401, "Invalid API key")
                        ELSE [ qk EXCEPT !.pc = "resolved" ] ]
        /\ UnresolvedChange

\* _ensure_not_expired with < for <=
ensure_not_expired_Strict(key, t) ==
    /\ ~key.expires_at.isnull
    /\ LET expires_at == IF ~key.expires_at.aware
                         THEN ReplaceTzUtc(key.expires_at)
                         ELSE key.expires_at
       IN  expires_at.t < t

\* _ensure_not_expired: TRUE when it raises 403 at time t
ensure_not_expired(key, t) ==
    /\ ~key.expires_at.isnull
    /\ LET expires_at == IF ~key.expires_at.aware
                         THEN ReplaceTzUtc(key.expires_at)
                         ELSE key.expires_at
       IN  expires_at.t <= t

\* _proxy_request, line 275
EnsureNotExpired(r) ==
    /\ req[r].pc = "resolved"
    /\ req' = [ req EXCEPT ![r] =
                  IF ensure_not_expired(req[r].key_record, now)
                  THEN Fail(req[r], 403, "API key has expired")
                  ELSE [ req[r] EXCEPT !.pc = "notexpired" ] ]
    /\ UNCHANGED << api_keys, usage_logs, key_seq, log_seq, now, last, hist,
                    call, txn >>

\* the body forwarded upstream before it is parsed
ParseBody_AfterCall(r) ==
    /\ req[r].pc = "notexpired"
    /\ req' = [ req EXCEPT ![r] =
                  IF ~req[r].body.valid
                  THEN Fail([ req[r] EXCEPT !.calls = @ + 1 ], 400, "Invalid JSON body")
                  ELSE [ req[r] EXCEPT !.pc = "parsed" ] ]
    /\ UNCHANGED << api_keys, usage_logs, key_seq, log_seq, now, last, hist,
                    call, txn >>

\* _proxy_request, lines 277-280
ParseBody(r) ==
    /\ req[r].pc = "notexpired"
    /\ req' = [ req EXCEPT ![r] =
                  IF ~req[r].body.valid
                  THEN Fail(req[r], 400, "Invalid JSON body")
                  ELSE [ req[r] EXCEPT !.pc = "parsed" ] ]
    /\ UNCHANGED << api_keys, usage_logs, key_seq, log_seq, now, last, hist,
                    call, txn >>

\* _proxy_request, line 282
DecryptKey(r) ==
    LET d == decrypt_api_key(req[r].key_record.encrypted_key)
    IN  /\ req[r].pc = "parsed"
        /\ req' = [ req EXCEPT ![r] =
                      IF ~d.ok
                      THEN Fail([ req[r] EXCEPT !.dec = TRUE ], 500,
                                "Internal Server Error")
                      ELSE [ req[r] EXCEPT !.pc = "decrypted", !.dec = TRUE,
                                           !.api_key = d.plain ] ]
        /\ UNCHANGED << api_keys, usage_logs, key_seq, log_seq, now, last, hist,
                        call, txn >>

\* what one outbound exchange can come to: an answer of the upstream, or
\* requests raising (no connection, a timeout of the transport)
UpstreamOutcomes ==
    { Response(200, TextChat), Response(200, TextHtml),
      Response(500, TextError), Raised,
      Response(200, TextNoUsage), Response(200, TextUsageNull),
      Response(200, TextArray) }

\* what the POST of _run_replicate can come to
CreateOutcomes ==
    { Response(201, TextStarting), Response(201, TextNoId),
      Response(201, TextArray), Response(200, TextHtml),
      Response(500, TextError), Raised }

\* what one GET of the loop of _run_replicate can come to
PollOutcomes ==
    { Response(200, TextStarting), Response(200, TextProcessing),
      Response(200, TextSucceeded), Response(200, TextFailed),
      Response(200, TextCanceled), Response(200, TextHtml),
      Response(500, TextError), Raised }

\* _run_replicate, lines 231-237: the request after the POST came to out
run_replicate_create(q, out) ==
    LET c == [ q EXCEPT !.calls = @ + 1 ]
        prediction == ParseJson(out.text)
    IN  IF out.raised THEN Fail(c, 500, "Internal Server Error")
        ELSE IF out.status_code >= 400
        THEN [ c EXCEPT !.pc = "dispatched", !.resp = out ]
        ELSE IF ~prediction.ok \/ ~prediction.isobj
        THEN Fail(c, 500, "Internal Server Error")
        ELSE IF prediction.id = ""
        THEN Fail(c, 500, "Failed to create prediction")
        ELSE [ c EXCEPT !.pc = "polling", !.resp = out ]

\* _run_replicate, lines 240-249: the request after one pass of the loop
\* whose GET came to out
run_replicate_poll(q, out) ==
    LET c == [ q EXCEPT !.calls = @ + 1, !.polls = @ + 1 ]
        data == ParseJson(out.text)
    IN  IF out.raised THEN Fail(c, 500, "Internal Server Error")
        ELSE IF out.status_code >= 400
        THEN [ c EXCEPT !.pc = "dispatched", !.resp = out ]
        ELSE IF ~data.ok \/ ~data.isobj
        THEN Fail([ c EXCEPT !.resp = out ], 500, "Internal Server Error")
        ELSE IF PredictionStatus(out.text) \in TerminalStatuses
        THEN [ c EXCEPT !.pc = "dispatched", !.resp = out ]
        ELSE [ c EXCEPT !.resp = out ]

\* a provider without a branch sent to an upstream all the same
RunProvider_NoElse(r) ==
    LET q == req[r]
    IN  /\ q.pc = "decrypted"
        /\ \E out \in UpstreamOutcomes :
              req' = [ req EXCEPT ![r] =
                IF out.raised
                THEN Fail([ q EXCEPT !.calls = @ + 1 ], 500,
                          "Internal Server Error")
                ELSE [ q EXCEPT !.pc = "dispatched", !.calls = @ + 1,
                                !.resp = out ] ]
        /\ UNCHANGED << api_keys, usage_logs, key_seq, log_seq, now, last, hist,
                        call, txn >>

\* _proxy_request, lines 284-332: the branch on provider and the _run_*
\* function it calls
RunProvider(r) ==
    LET q == req[r]
    IN  /\ q.pc = "decrypted"
        /\ IF q.provider \notin ProxyBranches
           THEN req' = [ req EXCEPT ![r] = Fail(q, 400, "Proxy not implemented") ]
           ELSE IF q.provider = StrZhipu /\ ~ZhipuKeyOk(q.api_key)
           THEN req' = [ req EXCEPT ![r] =
                           Fail(q, 400, ZhipuJwtError(q.api_key)) ]
           ELSE IF q.provider = StrGemini /\ ~q.body.isobj
           THEN req' = [ req EXCEPT ![r] = Fail(q, 500, "Internal Server Error") ]
           ELSE IF q.provider = StrReplicate
           THEN \E out \in CreateOutcomes :
                  req' = [ req EXCEPT ![r] = run_replicate_create(q, out) ]
           ELSE \E out \in UpstreamOutcomes :
                  req' = [ req EXCEPT ![r] =
                    IF out.raised
                    THEN Fail([ q EXCEPT !.calls = @ + 1 ], 500,
                              "Internal Server Error")
                    ELSE [ q EXCEPT !.pc = "dispatched", !.calls = @ + 1,
                                    !.resp = out ] ]
        /\ UNCHANGED << api_keys, usage_logs, key_seq, log_seq, now, last, hist,
                        call, txn >>

\* _run_replicate, lines 239-249: one pass of the loop "while True", the
\* sleep of one second after it included
PollReplicate(r) ==
    LET q == req[r]
    IN  /\ q.pc = "polling"
        /\ \E out \in PollOutcomes :
              req' = [ req EXCEPT ![r] = run_replicate_poll(q, out) ]
        /\ UNCHANGED << api_keys, usage_logs, key_seq, log_seq, now, last, hist,
                        call, txn >>

\* the usage record given the id of its credential, not one of its own
NewUsageLog_IdOfKey(id, q, tokens) ==
    [ id |-> q.key_record.id,
      user_id |-> q.key_record.user_id,
      api_key_id |-> q.key_record.id,
      api_provider |-> q.provider,
      endpoint_or_model |-> BodyModel(q.body),
      status_code |-> q.resp.status_code,
      total_tokens |-> tokens ]

\* models.UsageLog(...) as _proxy_request builds it. latency_ms, created_at
\* and the two token counts it leaves at their defaults are not kept.
NewUsageLog(id, q, tokens) ==
    [ id |-> id,
      user_id |-> q.key_record.user_id,
      api_key_id |-> q.key_record.id,
      api_provider |-> q.provider,
      endpoint_or_model |-> BodyModel(q.body),
      status_code |-> q.resp.status_code,
      total_tokens |-> tokens ]

\* whether the database enforces ForeignKey("api_keys.id") of usage_logs
\* (models.py, line 52): SQLite, the default DATABASE_URL, does not as the
\* engine is created (database.py, lines 7-14); PostgreSQL does
EnforcesForeignKeys == { FALSE, TRUE }

\* _proxy_request, lines 336-346. The INSERT of a row whose credential is
\* gone is refused where the foreign key is enforced (IntegrityError at
\* db.commit(), not caught)
LogUsage(r) ==
    LET q == req[r]
        tokens == TotalTokens(q.resp)
        present == \E k \in api_keys : k.id = q.key_record.id
    IN  /\ q.pc = "dispatched"
        /\ IF ~q.body.isobj \/ ~tokens.ok
           THEN /\ req' = [ req EXCEPT ![r] = Fail(q, 500, "Internal Server Error") ]
                /\ UNCHANGED << usage_logs, log_seq >>
           ELSE \E enforced \in IF present THEN { FALSE } ELSE EnforcesForeignKeys :
                  IF enforced
                  THEN /\ req' = [ req EXCEPT ![r] =
                                     Fail(q, 500, "Internal Server Error") ]
                       /\ UNCHANGED << usage_logs, log_seq >>
                  ELSE /\ usage_logs' =
                             usage_logs \cup { NewUsageLog(log_seq + 1, q, tokens.n) }
                       /\ log_seq' = log_seq + 1
                       /\ req' = [ req EXCEPT ![r] =
                                     [ q EXCEPT !.pc = "logged", !.logs = @ + 1 ] ]
        /\ UNCHANGED << api_keys, key_seq, now, last, hist, call, txn >>

\* the response returned once the upstream has answered, the usage record
\* not written
Respond_BeforeLog(r) ==
    LET q == req[r]
    IN  /\ q.pc = "dispatched"
        /\ req' = [ req EXCEPT ![r] =
                      IF q.resp.status_code >= 400
                      THEN Fail(q, q.resp.status_code, q.resp.text)
                      ELSE [ q EXCEPT !.pc = "done", !.status = 200,
                                      !.json = ParseJson(q.resp.text) ] ]
        /\ UNCHANGED << api_keys, usage_logs, key_seq, log_seq, now, last, hist,
                        call, txn >>

\* _proxy_request, lines 348-351
Respond(r) ==
    LET q == req[r]
    IN  /\ q.pc = "logged"
        /\ req' = [ req EXCEPT ![r] =
                      IF q.resp.status_code >= 400
                      THEN Fail(q, q.resp.status_code, q.resp.text)
                      ELSE [ q EXCEPT !.pc = "done", !.status = 200,
                                      !.json = ParseJson(q.resp.text) ] ]
        /\ UNCHANGED << api_keys, usage_logs, key_seq, log_seq, now, last, hist,
                        call, txn >>

---------------------------------------------------------------------------
(* Stored ciphertexts that no longer decrypt: a row written while          *)
(* ENCRYPTION_KEY had another value, or a column changed in the database.  *)

CipherColumns == { "encrypted_key", "unified_key_encrypted" }

\* what a ciphertext column can come to hold
CorruptionsOf(token) ==
    { FernetEncrypt(OtherKey, token.plain),
      [ token EXCEPT !.plain = << 65 >> \o @ ] }

Corrupt(key_id, column) ==
    /\ \E k \in api_keys :
          /\ k.id = key_id
          /\ decrypt_api_key(k[column]).ok
          /\ \E token \in CorruptionsOf(k[column]) :
                api_keys' = (api_keys \ { k }) \cup { [ k EXCEPT ![column] = token ] }
    /\ UNCHANGED << usage_logs, key_seq, log_seq, now, last, req, hist, call, txn >>

---------------------------------------------------------------------------
(* Direct calls of the functions of provider_detection.py and security.py, *)
(* as the handlers and the module's other callers make them.               *)

Call(fn, arg, out) == [ fn |-> fn, arg |-> arg, out |-> out ]

CallChange ==
    UNCHANGED << api_keys, usage_logs, key_seq, log_seq, now, last, req, hist,
                 txn >>

\* provider_detection.detect_provider(api_key)
DetectCall(api_key) ==
    /\ call' = Call("detect_provider", api_key, detect_provider(api_key))
    /\ CallChange

\* secrets to encrypt: a provider's key, a unified secret, the empty string,
\* one with characters outside letters and digits and one outside ASCII
SecretStrings ==
    { KeyGroqA, UnifiedPlain(StrGroq, StrMyKey), << >>,
      << "s","k","-"," ","\"","\\","{","~" >>,
      << "s","k","-",CharEAcute,"x" >> }

\* tokens to decrypt: those encrypt_api_key made;
ValidTokens == { encrypt_api_key(x) : x \in SecretStrings }
\* those with the bytes of another secret, a byte changed, a byte cut off or
\* the HMAC of another token;
TamperedTokens ==
    ( { [ t EXCEPT !.plain = o.plain ] : t, o \in ValidTokens }
      \cup { [ t EXCEPT !.plain = << 65 >> \o @ ] : t \in ValidTokens }
      \cup { [ t EXCEPT !.plain = SubSeq(@, 1, Len(@) - 1) ] :
               t \in { v \in ValidTokens : v.plain # << >> } }
      \cup { [ t EXCEPT !.tag = o.tag ] : t, o \in ValidTokens } )
    \ ValidTokens
\* and those made under another key
OtherKeyTokens == { FernetEncrypt(OtherKey, StrEncode(x)) : x \in SecretStrings }
Tokens == ValidTokens \cup TamperedTokens \cup OtherKeyTokens

\* security.decrypt_api_key(encrypted)
DecryptCall(encrypted) ==
    /\ call' = Call("decrypt_api_key", encrypted, decrypt_api_key(encrypted))
    /\ CallChange

---------------------------------------------------------------------------
(* The system.                                                             *)

Init ==
    /\ api_keys = {}
    /\ usage_logs = {}
    /\ key_seq = 0
    /\ log_seq = 0
    /\ now = 0
    /\ last = VaultResponse("none", 0, << >>, 0, 0, "", << >>)
    /\ hist = [ u \in Owners |-> [ created |-> 0, deleted |-> 0 ] ]
    /\ req = [ r \in ReqIds |-> IdleReq ]
    /\ call = Call("none", PyNone, PyNone)
    /\ txn = [ t \in TxnIds |-> IdleTxn ]

KeyIds(max) == 1..(max + 1)

\* the steps of _proxy_request
Step ==
    \/ \E r \in ReqIds : EnsureNotExpired(r)
    \/ \E r \in ReqIds : ParseBody(r)
    \/ \E r \in ReqIds : DecryptKey(r)
    \/ \E r \in ReqIds : RunProvider(r)
    \/ \E r \in ReqIds : LogUsage(r)
    \/ \E r \in ReqIds : Respond(r)

(* The vault alone: creates, lists and deletes of two owners.              *)
VaultNext ==
    \/ /\ key_seq < MaxKeys
       /\ \E u \in Owners, name \in Names, key \in RawKeys, exp \in ExpiryInputs :
             add_key(u, name, key, exp)
    \/ \E u \in Owners : list_keys(u)
    \/ \E u \in Owners, key_id \in KeyIds(MaxKeys) : delete_key(u, key_id)
    \/ Tick

VaultSpec == Init /\ [][VaultNext]_vars

(* The dispatcher: credentials are created and expire while proxy requests *)
(* of the three routes run.                                                *)
ProxyNames == { NameMyKey }
ProxyRawKeys == { KeyGroqA, KeyModal }
ProxyExpiryInputs == { NoExpiry, Naive(1) }

Next ==
    \/ /\ key_seq < MaxProxyKeys
       /\ \E u \in Owners, name \in ProxyNames, key \in ProxyRawKeys,
             exp \in ProxyExpiryInputs : add_key(u, name, key, exp)
    \/ Tick
    \/ /\ log_seq < MaxProxyLogs
       /\ \E r \in ReqIds, u \in Owners, provider \in ProviderParams,
             name_slug \in NameParams, body \in Bodies :
             proxy_request_named(r, u, provider, name_slug, body)
    \/ /\ log_seq < MaxProxyLogs
       /\ \E r \in ReqIds, u \in Owners, provider \in ProviderParams,
             body \in Bodies : proxy_request_default(r, u, provider, body)
    \/ /\ log_seq < MaxProxyLogs
       /\ \E r \in ReqIds, provider \in ProviderParams, name_slug \in NameParams,
             headers \in RequestHeaders, body \in Bodies :
             proxy_unified(r, provider, name_slug, headers, body)
    \/ Step

Spec == Init /\ [][Next]_vars

(* Deletes among dispatches: owners create a credential each, use it       *)
(* through the named route and delete credentials.                         *)
CascadeNext ==
    \/ /\ key_seq < MaxCascadeKeys
       /\ \E u \in Owners : add_key(u, NameMyKey, KeyGroqA, NoExpiry)
    \/ \E u \in Owners, key_id \in KeyIds(MaxCascadeKeys) : delete_key(u, key_id)
    \/ /\ log_seq < MaxCascadeLogs
       /\ \E r \in ReqIds, u \in Owners :
             proxy_request_named(r, u, StrGroq, StrMyKey, BodyChat)
    \/ Step

CascadeSpec == Init /\ [][CascadeNext]_vars

(* The default credential: owners create credentials of one provider under *)
(* two names, delete them, and dispatch through the default route.         *)
DefaultNext ==
    \/ /\ key_seq < MaxDefaultKeys
       /\ \E u \in Owners, name \in { NameMyKey, NameBlank } :
             add_key(u, name, KeyGroqA, NoExpiry)
    \/ \E u \in Owners, key_id \in KeyIds(MaxDefaultKeys) : delete_key(u, key_id)
    \/ Tick
    \/ /\ log_seq < MaxDefaultLogs
       /\ \E r \in ReqIds, u \in Owners :
             proxy_request_default(r, u, StrGroqCap, BodyChat)
    \/ Step

DefaultSpec == Init /\ [][DefaultNext]_vars

(* Corrupted ciphertexts: an owner's credential is listed and dispatched   *)
(* through the named and the anonymous route while its columns go bad.     *)
CorruptHeaders ==
    { h \in RequestHeaders :
        /\ h[StrXApiKeyHeader].isnull
        /\ h[StrXApiKeyParam].isnull
        /\ h[StrAuthorizationHeader] \in
             { NoHeader, Header(StrBearerCap \o UnifiedPlain(StrGroq, StrMyKey)) } }

CorruptNext ==
    \/ /\ key_seq < MaxCorruptKeys
       /\ add_key(1, NameMyKey, KeyGroqA, NoExpiry)
    \/ \E key_id \in KeyIds(MaxCorruptKeys), column \in CipherColumns :
          Corrupt(key_id, column)
    \/ \E u \in Owners : list_keys(u)
    \/ /\ log_seq < MaxCorruptLogs
       /\ \E r \in ReqIds, body \in Bodies :
             proxy_request_named(r, 1, StrGroq, StrMyKey, body)
    \/ /\ log_seq < MaxCorruptLogs
       /\ \E r \in ReqIds, headers \in CorruptHeaders :
             proxy_unified(r, StrGroq, StrMyKey, headers, BodyChat)
    \/ Step

CorruptSpec == Init /\ [][CorruptNext]_vars

(* Error texts: an owner creates, lists and deletes a credential of zhipu  *)
(* or modal, or fails to, and dispatches through the named route.          *)
LeakNext ==
    \/ /\ key_seq < MaxLeakKeys
       /\ \E key \in LeakKeys : add_key(1, NameMyKey, key, NoExpiry)
    \/ list_keys(1)
    \/ \E key_id \in KeyIds(MaxLeakKeys) : delete_key(1, key_id)
    \/ /\ log_seq < MaxLeakLogs
       /\ \E r \in ReqIds, provider \in { StrZhipu, StrModal }, body \in Bodies :
             proxy_request_named(r, 1, provider, StrMyKey, body)
    \/ Step

LeakSpec == Init /\ [][LeakNext]_vars

(* Every provider: an owner creates a credential with a raw secret of one  *)
(* of the providers of the prefix table and dispatches through the         *)
(* credential's unified endpoint with its unified secret.                  *)
ProviderKeys ==
    (PrefixKeys \ { << "g","l","m","_" >> \o KeyTail }) \cup { KeyZhipuOk }

\* str.split("/") of a path, the part collected so far in cur
RECURSIVE SplitPath(_, _)
SplitPath(s, cur) ==
    IF s = << >> THEN << cur >>
    ELSE IF Head(s) = "/" THEN << cur >> \o SplitPath(Tail(s), << >>)
    ELSE SplitPath(Tail(s), cur \o << Head(s) >>)

\* the path parameters provider and name_slug the route
\* /proxy/u/{provider}/{name_slug} takes from a unified endpoint
EndpointParams(endpoint) ==
    LET parts == SplitPath(endpoint, << >>)
    IN  [ provider |-> parts[4], name_slug |-> parts[5] ]

\* the headers of a request that carries the secret as a bearer token
BearerHeaders(secret) ==
    [ n \in SentHeaderNames |->
        IF n = StrAuthorizationHeader THEN Header(StrBearerCap \o secret)
        ELSE NoHeader ]

ProviderNext ==
    \/ /\ key_seq < MaxProviderKeys
       /\ \E key \in ProviderKeys : add_key(1, NameMyKey, key, NoExpiry)
    \/ /\ log_seq < MaxProviderLogs
       /\ last.op = "add"
       /\ last.status = 201
       /\ \E r \in ReqIds :
             proxy_unified(r, EndpointParams(last.keys[1].unified_endpoint).provider,
                           EndpointParams(last.keys[1].unified_endpoint).name_slug,
                           BearerHeaders(last.keys[1].unified_api_key), BodyChat)
    \/ \E r \in ReqIds : req[r].polls < MaxPolls /\ PollReplicate(r)
    \/ Step

ProviderSpec == Init /\ [][ProviderNext]_vars

(* The anonymous route among owners: two owners create a credential of    *)
(* groq under the same name, each with a raw secret, and the unified       *)
(* secret is presented as a bearer token.                                  *)
AnonHeaders ==
    { h \in RequestHeaders :
        /\ h[StrXApiKeyHeader].isnull
        /\ h[StrXApiKeyParam].isnull
        /\ h[StrAuthorizationHeader] \in
             { Header(StrBearerCap \o UnifiedPlain(StrGroq, StrMyKey)),
               Header(StrBearerCap \o UnifiedPlain(StrModal, StrMyKey)) } }

AnonNext ==
    \/ /\ key_seq < MaxAnonKeys
       /\ \E u \in Owners, key \in { KeyGroqA, KeyGroqB } :
             add_key(u, NameMyKey, key, NoExpiry)
    \/ /\ log_seq < MaxAnonLogs
       /\ \E r \in ReqIds, headers \in AnonHeaders :
             proxy_unified(r, StrGroq, StrMyKey, headers, BodyChat)
    \/ Step

AnonSpec == Init /\ [][AnonNext]_vars

(* Request bodies: an owner creates a credential of groq or of gemini and  *)
(* dispatches through the named route with bodies of every shape.          *)
KeyGemini == << "A","I","z","a" >> \o KeyTail
AllBodies == { BodyInvalid, BodyChat, BodyNoModel, BodyArray }

BodyNext ==
    \/ /\ key_seq < MaxBodyKeys
       /\ \E key \in { KeyGroqA, KeyGemini } : add_key(1, NameMyKey, key, NoExpiry)
    \/ /\ log_seq < MaxBodyLogs
       /\ \E r \in ReqIds, provider \in { StrGroq, StrGemini }, body \in AllBodies :
             proxy_request_named(r, 1, provider, StrMyKey, body)
    \/ Step

BodySpec == Init /\ [][BodyNext]_vars

(* Transactions: an owner's creates and deletes run statement by          *)
(* statement, MaxTxn of them at a time, fail at any statement, and fall    *)
(* among the steps of a dispatch.                                          *)
TxnNames == { NameMyKey, NameMyKeyBang }

TxnNext ==
    \/ /\ key_seq < MaxTxnKeys
       /\ \E t \in TxnIds, name \in TxnNames :
             add_key_check(t, 1, name, KeyGroqA, NoExpiry)
    \/ \E t \in TxnIds : add_key_commit(t)
    \/ \E t \in TxnIds, key_id \in KeyIds(MaxTxnKeys) : delete_key_find(t, 1, key_id)
    \/ \E t \in TxnIds : delete_key_cascade(t)
    \/ \E t \in TxnIds : delete_key_commit(t)
    \/ \E t \in TxnIds : Rollback(t)
    \/ /\ log_seq < MaxTxnLogs
       /\ \E r \in ReqIds : proxy_request_named(r, 1, StrGroq, StrMyKey, BodyChat)
    \/ Step

TxnSpec == Init /\ [][TxnNext]_vars

(* Dispatches side by side: an owner creates a credential and MaxConcReq   *)
(* requests of the named route use it, their steps interleaved.            *)
ConcReqIds == 1..MaxConcReq

ConcInit ==
    /\ api_keys = {}
    /\ usage_logs = {}
    /\ key_seq = 0
    /\ log_seq = 0
    /\ now = 0
    /\ last = VaultResponse("none", 0, << >>, 0, 0, "", << >>)
    /\ hist = [ u \in Owners |-> [ created |-> 0, deleted |-> 0 ] ]
    /\ req = [ r \in ConcReqIds |-> IdleReq ]
    /\ call = Call("none", PyNone, PyNone)
    /\ txn = [ t \in TxnIds |-> IdleTxn ]

ConcNext ==
    \/ /\ key_seq < MaxConcKeys
       /\ add_key(1, NameMyKey, KeyGroqA, NoExpiry)
    \/ /\ log_seq < MaxConcLogs
       /\ \E r \in ConcReqIds :
             proxy_request_named(r, 1, StrGroq, StrMyKey, BodyChat)
    \/ \E r \in ConcReqIds : EnsureNotExpired(r)
    \/ \E r \in ConcReqIds : ParseBody(r)
    \/ \E r \in ConcReqIds : DecryptKey(r)
    \/ \E r \in ConcReqIds : RunProvider(r)
    \/ \E r \in ConcReqIds : LogUsage(r)
    \/ \E r \in ConcReqIds : Respond(r)

ConcSpec == ConcInit /\ [][ConcNext]_vars

(* The polling provider: an owner creates a credential of replicate and    *)
(* dispatches through the named route; the loop of _run_replicate is       *)
(* followed for MaxPolls passes.                                           *)
KeyReplicate == << "r","8","_" >> \o KeyTail

PollNext ==
    \/ /\ key_seq < MaxPollKeys
       /\ add_key(1, NameMyKey, KeyReplicate, NoExpiry)
    \/ /\ log_seq < MaxPollLogs
       /\ \E r \in ReqIds, body \in Bodies :
             proxy_request_named(r, 1, StrReplicate, StrMyKey, body)
    \/ \E r \in ReqIds : req[r].polls < MaxPolls /\ PollReplicate(r)
    \/ Step

PollSpec == Init /\ [][PollNext]_vars

(* Raw secrets of every provider: one owner creates and lists credentials, *)
(* and the functions are called on their own.                              *)
KeyNext ==
    \/ /\ key_seq < MaxCallKeys
       /\ \E key \in DetectKeys : add_key(1, NameMyKey, key, NoExpiry)
    \/ list_keys(1)
    \/ \E api_key \in DetectInputs : DetectCall(api_key)
    \/ \E encrypted \in Tokens : DecryptCall(encrypted)

KeySpec == Init /\ [][KeyNext]_vars

---------------------------------------------------------------------------
(* Properties of the dispatcher (Spec).                                    *)

\* C1: every proxy request that reached the decrypt of the raw secret has
\* appended exactly one usage record when it ends, whatever the steps after
\* the decrypt came to (an upstream status below 400, one of 400 or above,
\* no branch for the provider, the outbound call or the parse of the answer
\* raising).
C1_OneUsageRecordPerDispatch ==
    \A r \in ReqIds :
        (req[r].pc = "done" /\ req[r].dec) => req[r].logs = 1

\* the details of the rejections raised before the raw secret is decrypted
RejectionDetails ==
    { "No key named", "No key found for user", "Unified key not found",
      "Missing API key", "Invalid API key", "API key has expired",
      "Invalid JSON body" }

\* C2: a proxy request rejected before the outbound call (credential not
\* found, credential expired, malformed body, unified secret missing or not
\* matching) has appended no usage record and made no outbound call, and the
\* step that rejects it leaves usage_logs as it was.
C2_RejectionWritesNothing ==
    [][ \A r \in ReqIds :
          ( /\ req'[r] # req[r]
            /\ req'[r].pc = "done"
            /\ req'[r].detail \in RejectionDetails )
          => /\ usage_logs' = usage_logs
             /\ log_seq' = log_seq
             /\ req'[r].logs = 0
             /\ req'[r].calls = 0 ]_vars

\* C2, its case: with a usage record on the ledger, a request is rejected
\* for a malformed body.
C2_Witness ==
    \E r \in ReqIds :
        /\ usage_logs # {}
        /\ req[r].pc = "done"
        /\ req[r].status = 400
        /\ req[r].detail = "Invalid JSON body"

C3_Rejected(q) ==
    /\ q.pc = "done"
    /\ q.status = 401
    /\ q.detail \in { "Missing API key", "Invalid API key" }

C3_Stored(q) == decrypt_api_key(q.key_record.unified_key_encrypted).plain

\* C3: an anonymous request POST /proxy/u/{provider}/{name} that carries
\* "Authorization: Bearer s" and no X-API-Key passes authentication if and
\* only if s is the decrypted stored unified secret of the credential it
\* resolved; with another s, an empty s or no header at all it is answered
\* 401 and has written no usage record.
C3_BearerAuthenticates ==
    \A r \in ReqIds :
        LET q == req[r]
        IN  ( /\ q.route = "unified"
              /\ q.key_record.id # 0
              /\ q.x_api_key.isnull )
            => /\ \A s \in Secrets \cup { << >> } :
                     q.authorization = Header(StrBearerCap \o s)
                     => (C3_Rejected(q) <=> s # C3_Stored(q))
               /\ q.authorization.isnull => C3_Rejected(q)
               /\ C3_Rejected(q) => (q.logs = 0 /\ q.calls = 0)

\* C3, its case: the right secret as a bearer token, and the request
\* completed with its usage record written.
C3_Witness ==
    \E r \in ReqIds :
        /\ req[r].route = "unified"
        /\ req[r].x_api_key.isnull
        /\ req[r].authorization = Header(StrBearerCap \o C3_Stored(req[r]))
        /\ req[r].pc = "done"
        /\ req[r].status = 200
        /\ req[r].logs = 1

C8_UpstreamRelayed ==
    \A r \in ReqIds :
        LET q == req[r]
        IN  (q.pc = "done" /\ q.calls = 1 /\ ~q.resp.raised)
            => IF q.resp.status_code >= 400
               THEN /\ q.status = q.resp.status_code
                    /\ q.detail = q.resp.text
                    /\ q.logs = 1
                    /\ \E l \in usage_logs :
                          /\ l.api_key_id = q.key_record.id
                          /\ l.status_code = q.resp.status_code
               ELSE /\ q.status = 200
                    /\ q.json.ok
                    /\ q.json = ParseJson(q.resp.text)

---------------------------------------------------------------------------
(* Properties of the vault (VaultSpec).                                    *)

\* the slug a name is to have and the provider a raw secret is to be
\* detected as
ExpectedSlug(name) ==
    CASE name = NameMyKeyBang -> StrMyKey
      [] name = NameMyKey -> StrMyKey
      [] name = NameBlank -> StrKey

ExpectedProvider(key) ==
    CASE key = KeyGroqA -> StrGroq
      [] key = KeyGroqB -> StrGroq
      [] key = KeyModal -> StrModal
      [] key = KeyUnknown -> << >>

\* the owner has a credential of the provider the raw secret belongs to
\* whose name slug is the slug the name is to have
ExpectedClash(u, name, key) ==
    \E k \in api_keys :
        /\ k.user_id = u
        /\ k.api_provider = ExpectedProvider(key)
        /\ k.name_slug = ExpectedSlug(name)

C4_Unique ==
    \A k1, k2 \in api_keys :
        ( /\ k1.user_id = k2.user_id
          /\ k1.api_provider = k2.api_provider
          /\ k1.name_slug = k2.name_slug ) => k1 = k2

\* C4: in every state no two credentials share (owner, provider slug, name
\* slug), and a create whose name normalizes to the slug of a credential the
\* owner already has for the provider ("My Key!" after "my-key") fails with
\* 400 and leaves the store unchanged.
C4_UniquePerOwnerProviderSlug ==
    /\ [](C4_Unique)
    /\ [][ \A key \in RawKeys, exp \in ExpiryInputs :
             ( /\ last'.op = "add"
               /\ add_key(last'.user, last'.name, key, exp)
               /\ ExpectedClash(last'.user, last'.name, key) )
             => /\ last'.status = 400
                /\ last'.detail = "Key name already exists for this provider"
                /\ api_keys' = api_keys
                /\ key_seq' = key_seq ]_vars

\* C4, its case: "My Key!" refused for an owner who has "my-key".
C4_Witness ==
    /\ last.op = "add"
    /\ last.status = 400
    /\ last.name = NameMyKeyBang
    /\ last.detail = "Key name already exists for this provider"
    /\ \E k \in api_keys : k.user_id = last.user /\ k.name = NameMyKey

\* C7: the unified secret of every stored credential is
\* "apikey-<provider slug>-<name slug>" and its unified endpoint
\* "/proxy/u/<provider slug>/<name slug>", so that credentials that differ
\* in the raw secret, the owner or the expiry only have the same unified
\* secret; the create answers with that secret.
C7_UnifiedFromSlugs ==
    /\ \A k \in api_keys :
          /\ decrypt_api_key(k.unified_key_encrypted) =
                [ ok |-> TRUE, error |-> "",
                  plain |-> StrApikeyDash \o k.api_provider \o << "-" >> \o k.name_slug ]
          /\ k.unified_endpoint =
                StrProxyU \o k.api_provider \o << "/" >> \o k.name_slug
    /\ \A k1, k2 \in api_keys :
          (k1.api_provider = k2.api_provider /\ k1.name_slug = k2.name_slug)
          => k1.unified_key_encrypted = k2.unified_key_encrypted
    /\ (last.op = "add" /\ last.status = 201)
       => last.keys[1].unified_api_key =
             StrApikeyDash \o last.keys[1].provider \o << "-" >> \o ExpectedSlug(last.name)

\* C7, its case: two credentials of different owners, raw secrets and
\* expiries with one unified secret.
C7_Witness ==
    \E k1, k2 \in api_keys :
        /\ k1.user_id # k2.user_id
        /\ k1.encrypted_key # k2.encrypted_key
        /\ k1.expires_at # k2.expires_at
        /\ k1.unified_key_encrypted = k2.unified_key_encrypted

C10_Rows(u) == { k \in api_keys : k.user_id = u }

---------------------------------------------------------------------------
(* Properties of deletes among dispatches (CascadeSpec).                   *)

\* C6: a delete that succeeds leaves no usage record with the id of the
\* deleted credential, however many it had, and leaves the usage records of
\* every other credential as they were.
C6_DeleteCascades ==
    [][ (last'.op = "delete" /\ last'.status = 204 /\ last' # last)
        => /\ \A l \in usage_logs' : l.api_key_id # last'.key_id
           /\ \A l \in usage_logs : l.api_key_id # last'.key_id => l \in usage_logs'
           /\ usage_logs' \subseteq usage_logs ]_vars

\* C6, its case: a credential with a usage record was deleted and the usage
\* record of another credential is still there.
C6_Witness ==
    /\ last.op = "delete"
    /\ last.status = 204
    /\ log_seq = 2
    /\ Cardinality(usage_logs) = 1
    /\ \E l \in usage_logs : \E k \in api_keys : k.id = l.api_key_id

\* C9: a delete for an id that does not exist or that belongs to another
\* owner is answered 404 and leaves every credential and every usage record
\* as it was; a credential and its usage records go only by a delete of its
\* own owner.
C9_DeleteOwnOnly ==
    /\ [][ (last'.op = "delete" /\ last' # last
            /\ ~(\E k \in api_keys : k.id = last'.key_id /\ k.user_id = last'.user))
           => /\ last'.status = 404
              /\ UNCHANGED << api_keys, usage_logs >> ]_vars
    /\ [][ \A k \in api_keys \ api_keys' :
              /\ last'.op = "delete"
              /\ last'.status = 204
              /\ last'.user = k.user_id
              /\ last'.key_id = k.id ]_vars
    /\ [][ \A l \in usage_logs \ usage_logs' :
              \E k \in api_keys \ api_keys' :
                 k.id = l.api_key_id /\ k.user_id = last'.user ]_vars

\* C9, its case: an owner asked to delete the credential of the other owner,
\* which has a usage record, and was answered 404.
C9_Witness ==
    /\ last.op = "delete"
    /\ last.status = 404
    /\ \E k \in api_keys :
          /\ k.id = last.key_id
          /\ k.user_id # last.user
          /\ \E l \in usage_logs : l.api_key_id = k.id

---------------------------------------------------------------------------
(* Further properties of the dispatcher (Spec).                            *)

\* C11: an anonymous request POST /proxy/u/{provider}/{name} that carries
\* the decrypted stored unified secret of the credential it resolved in the
\* header X-API-Key, and no Authorization header, passes authentication: it
\* is not answered 401.
C11_XApiKeyAuthenticates ==
    \A r \in ReqIds :
        LET q == req[r]
        IN  ( /\ q.route = "unified"
              /\ q.key_record.id # 0
              /\ q.headers[StrXApiKeyHeader] = Header(C3_Stored(q))
              /\ q.headers[StrXApiKeyParam].isnull
              /\ q.headers[StrAuthorizationHeader].isnull )
            => ~C3_Rejected(q)

\* C18: a request for a credential of modal, a provider detect_provider
\* returns and _proxy_request has no branch for, makes no outbound call and,
\* once its raw secret is decrypted, ends with 400 "Proxy not implemented".
C18_NotImplemented ==
    /\ [](\A r \in ReqIds :
             req[r].key_record.api_provider = StrModal
             => /\ req[r].calls = 0
                /\ req[r].pc \notin { "dispatched", "logged" }
                /\ (req[r].pc = "done" /\ req[r].dec)
                   => /\ req[r].status = 400
                      /\ req[r].detail = "Proxy not implemented")
    /\ [][ \A r \in ReqIds :
             ( /\ req[r].pc = "decrypted"
               /\ req[r].key_record.api_provider = StrModal
               /\ req'[r] # req[r] )
             => /\ req'[r].pc = "done"
                /\ req'[r].status = 400 ]_vars

\* C18, its case: a request for a modal credential went through expiry,
\* body and decrypt and ended with 400, no outbound call made.
C18_Witness ==
    \E r \in ReqIds :
        /\ req[r].key_record.api_provider = StrModal
        /\ req[r].pc = "done"
        /\ req[r].dec
        /\ req[r].status = 400
        /\ req[r].detail = "Proxy not implemented"
        /\ req[r].calls = 0

---------------------------------------------------------------------------
(* Properties of the functions and of the vault on every provider's raw    *)
(* secrets (KeySpec).                                                      *)

\* the entries of the table whose prefix the whitespace-stripped key starts
\* with, and the longest of them
C12_Matches(s) ==
    { i \in DOMAIN PROVIDER_PREFIX_MAP :
        StartsWith(Strip(s, Whitespace), PROVIDER_PREFIX_MAP[i][1]) }

C12_Longest(s) ==
    CHOOSE i \in C12_Matches(s) :
        \A j \in C12_Matches(s) :
            Len(PROVIDER_PREFIX_MAP[j][1]) <= Len(PROVIDER_PREFIX_MAP[i][1])

\* C12: detect_provider returns, for every key that starts with a prefix of
\* the table once its whitespace is stripped, the provider of the longest
\* such prefix; in the table no prefix stands before a longer prefix that
\* extends it, so that sk-ant-... gives anthropic, sk-or-... openrouter and
\* every other sk-... openai.
C12_LongestPrefix ==
    /\ \A i, j \in DOMAIN PROVIDER_PREFIX_MAP :
          (i < j) => ~StartsWith(PROVIDER_PREFIX_MAP[j][1], PROVIDER_PREFIX_MAP[i][1])
    /\ (call.fn = "detect_provider" /\ call.arg.type = "str"
         /\ C12_Matches(call.arg.s) # {})
        => /\ call.out.ok
           /\ call.out.provider = PROVIDER_PREFIX_MAP[C12_Longest(call.arg.s)][2]
           /\ StartsWith(Strip(call.arg.s, Whitespace), << "s","k","-" >>)
              => call.out.provider =
                   IF StartsWith(Strip(call.arg.s, Whitespace),
                                 << "s","k","-","a","n","t","-" >>)
                   THEN << "a","n","t","h","r","o","p","i","c" >>
                   ELSE IF StartsWith(Strip(call.arg.s, Whitespace),
                                      << "s","k","-","o","r","-" >>)
                   THEN << "o","p","e","n","r","o","u","t","e","r" >>
                   ELSE << "o","p","e","n","a","i" >>

\* C12, its case: an anthropic key inside whitespace, which also starts
\* with the openai prefix, detected as anthropic.
C12_Witness ==
    /\ call.fn = "detect_provider"
    /\ call.arg = PyStr(<< " " >> \o << "s","k","-","a","n","t","-" >> \o KeyTail
                         \o << "\n" >>)
    /\ call.out.provider = << "a","n","t","h","r","o","p","i","c" >>

\* C13: detect_provider raises ValueError, and nothing else, for every input
\* that starts with no prefix of the table: an unrecognised key, the empty
\* string, whitespace only, a value that is no str; POST /keys with such a
\* key is answered 400 and stores no credential.
C13_UnknownPrefixFails ==
    /\ [](( /\ call.fn = "detect_provider"
            /\ (call.arg.type # "str" \/ C12_Matches(call.arg.s) = {}) )
          => /\ ~call.out.ok
             /\ call.out.error = "ValueError")
    /\ [][ \A key \in NoPrefixKeys :
             add_key(1, NameMyKey, key, NoExpiry)
             => /\ last'.status = 400
                /\ api_keys' = api_keys
                /\ key_seq' = key_seq ]_vars

\* C13, its case: a create with the empty key was answered 400 after
\* detect_provider was called on a value that is no str.
C13_Witness ==
    /\ call.fn = "detect_provider"
    /\ call.arg = PyInt(7)
    /\ ~call.out.ok
    /\ last.op = "add"
    /\ last.status = 400
    /\ last.detail = "Invalid API key"
    /\ api_keys = {}

\* C14: decrypt_api_key(encrypt_api_key(x)) is x for every secret x, and
\* decrypt_api_key of a token that was tampered with, or that was made under
\* another key, raises ValueError and returns no plaintext.
C14_RoundTrip ==
    call.fn = "decrypt_api_key"
    => /\ \A x \in SecretStrings :
             call.arg = encrypt_api_key(x) => call.out = Decrypted(x)
       /\ call.arg \in TamperedTokens \cup OtherKeyTokens
          => /\ ~call.out.ok
             /\ call.out.error = "ValueError"
             /\ call.out.plain = << >>

\* C14, its case: the token of a secret with a character outside ASCII,
\* decrypted to that secret.
C14_Witness ==
    /\ call.fn = "decrypt_api_key"
    /\ call.arg = encrypt_api_key(<< "s","k","-",CharEAcute,"x" >>)
    /\ Len(call.arg.plain) = 6
    /\ call.out = Decrypted(<< "s","k","-",CharEAcute,"x" >>)

\* the raw secret of the stored credential a response entry is about
C15_Raw(out) ==
    decrypt_api_key((CHOOSE k \in api_keys : k.id = out.id).encrypted_key).plain

\* the mask a raw secret is to have
C15_Mask(raw) ==
    IF Len(raw) <= 8 THEN << "*","*","*","*" >>
    ELSE << raw[1], raw[2], raw[3], raw[4], "*", "*", "*", "*",
            raw[Len(raw) - 3], raw[Len(raw) - 2], raw[Len(raw) - 1], raw[Len(raw)] >>

\* C15: in every answer of POST /keys (201) and GET /keys (200), the api_key
\* of an entry is the mask of the credential's raw secret and not the raw
\* secret: "****" for a secret of 8 characters or fewer, else its first 4
\* characters, "****" and its last 4.
C15_Masked ==
    (last.op \in { "add", "list" } /\ last.status \in { 200, 201 })
    => \A i \in DOMAIN last.keys :
          /\ last.keys[i].api_key = C15_Mask(C15_Raw(last.keys[i]))
          /\ last.keys[i].api_key # C15_Raw(last.keys[i])

\* C15, its case: the list shows a credential whose raw secret has exactly
\* 8 characters as "****".
C15_Witness ==
    /\ last.op = "list"
    /\ last.status = 200
    /\ Len(last.keys) = 1
    /\ C15_Raw(last.keys[1]) = KeyGroqB
    /\ Len(KeyGroqB) = 8
    /\ last.keys[1].api_key = StrStars

---------------------------------------------------------------------------
(* Properties of the default route (DefaultSpec).                          *)

\* the caller's credentials of the provider asked for
C16_Mine(q) ==
    { k \in api_keys : k.user_id = q.user /\ k.api_provider = q.provider }

\* C16: a request POST /proxy/{provider} resolves, whatever creates and
\* deletes came before, the credential of that provider the caller created
\* last (the one with the highest id); when the caller has none it is
\* answered 404 and has made no outbound call.
C16_DefaultUsesNewest ==
    [][ \A r \in ReqIds :
          (Accepts(r) /\ req'[r] # req[r] /\ req'[r].route = "default")
          => IF C16_Mine(req'[r]) = {}
             THEN /\ req'[r].pc = "done"
                  /\ req'[r].status = 404
                  /\ req'[r].calls = 0
             ELSE /\ req'[r].pc = "resolved"
                  /\ req'[r].key_record.user_id = req'[r].user
                  /\ \A k \in C16_Mine(req'[r]) :
                        k.id <= req'[r].key_record.id ]_vars

---------------------------------------------------------------------------
(* Further properties of deletes among dispatches (CascadeSpec).           *)

\* the caller's credentials with the provider and name slug asked for
C17_Mine(q) ==
    { k \in api_keys : /\ k.user_id = q.user
                       /\ k.api_provider = q.provider
                       /\ k.name_slug = q.name_slug }

\* C17: a request POST /proxy/{provider}/{name} resolves a credential of the
\* caller with that provider and name slug and no other; when the caller
\* has none it is answered 404 with no outbound call, also when another
\* owner has a credential with that provider and name slug.
C17_NamedOwnOnly ==
    [][ \A r \in ReqIds :
          (Accepts(r) /\ req'[r] # req[r] /\ req'[r].route = "named")
          => IF C17_Mine(req'[r]) = {}
             THEN /\ req'[r].pc = "done"
                  /\ req'[r].status = 404
                  /\ req'[r].calls = 0
                  /\ req'[r].key_record = NullKey
             ELSE /\ req'[r].pc = "resolved"
                  /\ \E k \in C17_Mine(req'[r]) :
                        /\ req'[r].key_record.id = k.id
                        /\ req'[r].key_record.user_id = req'[r].user ]_vars

\* C17, its case: owner 2 has no credential, owner 1 has one with the
\* provider and name slug owner 2 asks for, and owner 2 is answered 404.
C17_Witness ==
    \E r \in ReqIds :
        /\ req[r].route = "named"
        /\ req[r].user = 2
        /\ req[r].pc = "done"
        /\ req[r].status = 404
        /\ C17_Mine(req[r]) = {}
        /\ \E k \in api_keys : /\ k.user_id = 1
                               /\ k.api_provider = req[r].provider
                               /\ k.name_slug = req[r].name_slug

---------------------------------------------------------------------------
(* Properties of corrupted ciphertexts (CorruptSpec).                      *)

\* a ciphertext that is no token of the process's key
C19_Bad(token) ==
    token.key # "k1" \/ token.tag # << "hmac", "k1", token.plain >>

\* C19: when a stored ciphertext does not decrypt, the operation that needs
\* its plaintext ends with 500: a dispatch at the decrypt of the raw secret,
\* with no outbound call and no plaintext; the anonymous route at the
\* comparison of the unified secret, neither passed nor answered 401; the
\* list with no entries returned.
C19_CorruptIsFault ==
    /\ [](\A r \in ReqIds :
             (req[r].key_record.id # 0 /\ C19_Bad(req[r].key_record.encrypted_key))
             => /\ req[r].calls = 0
                /\ req[r].api_key = << >>
                /\ req[r].pc \notin { "decrypted", "dispatched", "logged" }
                /\ (req[r].pc = "done" /\ req[r].dec) => req[r].status = 500)
    /\ [][ \A r \in ReqIds :
             ( /\ req[r].pc = "parsed"
               /\ C19_Bad(req[r].key_record.encrypted_key)
               /\ req'[r] # req[r] )
             => /\ req'[r].pc = "done"
                /\ req'[r].status = 500 ]_vars
    /\ [](\A r \in ReqIds :
             ( /\ req[r].route = "unified"
               /\ req[r].key_record.id # 0
               /\ C19_Bad(req[r].key_record.unified_key_encrypted)
               /\ ~req[r].authorization.isnull )
             => /\ req[r].pc = "done"
                /\ req[r].status = 500
                /\ req[r].calls = 0)
    /\ [][ \A u \in Owners :
             ( /\ list_keys(u)
               /\ \E k \in api_keys :
                     /\ k.user_id = u
                     /\ C19_Bad(k.encrypted_key) \/ C19_Bad(k.unified_key_encrypted) )
             => /\ last'.status = 500
                /\ last'.keys = << >> ]_vars

\* C19, its case: a named dispatch reached the decrypt of a raw secret whose
\* ciphertext was made under another key, and ended with 500 and no
\* outbound call.
C19_Witness ==
    \E r \in ReqIds :
        /\ req[r].route = "named"
        /\ req[r].key_record.encrypted_key.key = OtherKey
        /\ req[r].pc = "done"
        /\ req[r].dec
        /\ req[r].status = 500
        /\ req[r].calls = 0

---------------------------------------------------------------------------
(* Properties of error texts (LeakSpec).                                   *)

\* the raw secrets a credential of the same provider can have instead
C20_OtherSecrets(provider) ==
    { k \in LeakKeys : Detect(k).ok /\ Slug(Detect(k).provider) = provider }

\* the error text _proxy_request generates itself, after the decrypt, for a
\* credential of this provider with this raw secret ("" when it generates
\* none and calls the upstream)
C20_DispatchText(provider, api_key) ==
    IF provider \notin ProxyBranches THEN "Proxy not implemented"
    ELSE IF provider = StrZhipu /\ ~ZhipuKeyOk(api_key) THEN ZhipuJwtError(api_key)
    ELSE ""

\* C20: an error text that POST /keys, GET /keys, DELETE /keys/{id} or a
\* proxy request generates itself does not depend on the raw secret: the
\* same request on a credential that differs in its raw secret alone, when
\* it also ends in an error of the program's own, ends in the same text.
C20_ErrorTextSecretFree ==
    /\ \A r \in ReqIds :
          (req[r].pc = "done" /\ req[r].status >= 400 /\ req[r].calls = 0)
          => \A k \in C20_OtherSecrets(req[r].key_record.api_provider) :
                \/ ~req[r].dec
                \/ C20_DispatchText(req[r].provider, k) = ""
                \/ C20_DispatchText(req[r].provider, k) = req[r].detail
    /\ (last.op = "add" /\ last.status = 400 /\ last.key_id = 0)
       => \A k \in LeakKeys :
             \/ Detect(k).ok
             \/ last.detail = "Key name already exists for this provider"
             \/ Detect(k).msg = last.detail
    /\ (last.op = "delete" /\ last.status >= 400)
       => last.detail = "Key not found or not owned by you"
    /\ (last.op = "list") => last.detail = ""

---------------------------------------------------------------------------
(* Properties of the polling provider (PollSpec).                          *)

\* C21: the loop of _run_replicate ends at a pass whose answer has status
\* 400 or above or reports the prediction succeeded, failed or canceled,
\* and it ends after a bounded number of passes whatever the upstream
\* answers: no dispatch makes as many passes as the model follows (MaxPolls,
\* which stands for any bound).
C21_PollLoopBounded ==
    /\ [][ \A r \in ReqIds :
             (req[r].pc = "polling" /\ req'[r] # req[r])
             => ( ( \/ req'[r].resp.raised
                    \/ req'[r].resp.status_code >= 400
                    \/ PredictionStatus(req'[r].resp.text) \in TerminalStatuses )
                  => req'[r].pc # "polling" ) ]_vars
    /\ [](\A r \in ReqIds : req[r].polls < MaxPolls)

---------------------------------------------------------------------------
(* Properties of dispatches side by side (ConcSpec).                       *)

\* the requests in flight or answered that have written their usage record
\* for this credential
C22_Logged(key_id) ==
    { r \in DOMAIN req : req[r].key_record.id = key_id /\ req[r].logs = 1 }

\* C22: no step of a dispatch changes api_keys; and every dispatch that
\* reaches the logging step adds exactly one usage record of its credential
\* and leaves the records there as they were, however the steps of the
\* other dispatches of the same credential fall around it, so that the
\* credential has as many records as dispatches logged and the table as many
\* as were ever inserted.
C22_ConcurrentLogs ==
    /\ [][ (\E r \in DOMAIN req : req'[r] # req[r]) => api_keys' = api_keys ]_vars
    /\ [][ \A r \in DOMAIN req :
             req'[r].logs = req[r].logs + 1
             => /\ usage_logs \subseteq usage_logs'
                /\ Cardinality(usage_logs') = Cardinality(usage_logs) + 1
                /\ \A l \in usage_logs' \ usage_logs :
                      /\ l.api_key_id = req[r].key_record.id
                      /\ l.user_id = req[r].key_record.user_id ]_vars
    /\ [](\A k \in api_keys :
             Cardinality({ l \in usage_logs : l.api_key_id = k.id })
                >= Cardinality(C22_Logged(k.id)))
    /\ [](Cardinality(usage_logs) = log_seq)

\* C22, its case: two dispatches of one credential are both past the
\* logging step and neither has answered yet, and the ledger has two
\* records of the credential.
C22_Witness ==
    /\ \A r \in DOMAIN req : req[r].pc = "logged" /\ req[r].key_record.id = 1
    /\ Cardinality(DOMAIN req) = 2
    /\ Cardinality({ l \in usage_logs : l.api_key_id = 1 }) = 2

---------------------------------------------------------------------------
(* Properties of transactions (TxnSpec).                                   *)

\* a row of api_keys with every column add_key gives it
C23_Whole(k) ==
    /\ k.id \in 1..key_seq
    /\ k.user_id \in Owners
    /\ k.api_provider # << >>
    /\ k.name_slug # << >>
    /\ decrypt_api_key(k.encrypted_key).ok
    /\ decrypt_api_key(k.unified_key_encrypted).ok
    /\ k.unified_endpoint = StrProxyU \o k.api_provider \o << "/" >> \o k.name_slug

---------------------------------------------------------------------------
(* Properties of the order of a dispatch's steps (Spec).                   *)

\* the steps of a dispatch in their order
C24_Steps ==
    << "resolved", "notexpired", "parsed", "decrypted", "dispatched", "logged",
       "done" >>

C24_Index(pc) == CHOOSE i \in DOMAIN C24_Steps : C24_Steps[i] = pc

\* C24: a dispatch goes from each step to the next of Resolved, NotExpired,
\* body parsed, Decrypted, Dispatched, Logged, Completed, or ends; the raw
\* secret is decrypted at a request whose credential was found unexpired
\* and whose body parsed, the outbound call is made with the decrypted
\* secret, the usage record is appended after the upstream has answered,
\* and the upstream's result or error is returned with the usage record
\* committed.
C24_StepOrder ==
    /\ [][ \A r \in ReqIds :
             (req'[r] # req[r] /\ ~Accepts(r))
             => /\ \/ req'[r].pc = "done"
                   \/ C24_Index(req'[r].pc) = C24_Index(req[r].pc) + 1
                /\ (req'[r].dec /\ ~req[r].dec)
                   => /\ req[r].pc = "parsed"
                      /\ req[r].body.valid
                      /\ req[r].calls = 0
                /\ (req'[r].pc = "notexpired")
                   => ~ensure_not_expired(req[r].key_record, now)
                /\ (req'[r].pc = "parsed") => req[r].body.valid
                /\ (req'[r].calls > req[r].calls)
                   => /\ req[r].pc = "decrypted"
                      /\ req[r].dec
                      /\ Decrypted(req[r].api_key)
                            = decrypt_api_key(req[r].key_record.encrypted_key)
                      /\ req[r].logs = 0
                /\ (req'[r].logs > req[r].logs)
                   => /\ req[r].pc = "dispatched"
                      /\ req[r].calls = 1
                      /\ ~req[r].resp.raised ]_vars
    /\ [](\A r \in ReqIds :
             LET q == req[r]
             IN  ( /\ q.pc = "done"
                   /\ q.calls > 0
                   /\ ~q.resp.raised
                   /\ \/ q.status = 200
                      \/ q.status = q.resp.status_code /\ q.detail = q.resp.text )
                 => /\ q.logs = 1
                    /\ \E l \in usage_logs :
                          /\ l.api_key_id = q.key_record.id
                          /\ l.status_code = q.resp.status_code)

\* C24, its case: a dispatch that went through every step and returned the
\* upstream's error, its usage record on the ledger.
C24_Witness ==
    \E r \in ReqIds :
        /\ req[r].pc = "done"
        /\ req[r].dec
        /\ req[r].calls = 1
        /\ req[r].resp = Response(500, TextError)
        /\ req[r].status = 500
        /\ req[r].detail = TextError
        /\ req[r].logs = 1

---------------------------------------------------------------------------
(* Properties of the token count (ConcSpec).                               *)

\* the token count a usage record is to have for an upstream answer:
\* usage.total_tokens where the answer has it, 0 otherwise
C25_Expected(resp) ==
    LET j == ParseJson(resp.text)
    IN  IF resp.status_code < 400 /\ j.ok /\ j.isobj /\ j.usage = "object"
           /\ j.total >= 0
        THEN j.total
        ELSE 0

\* C25: whatever the upstream answered (a status of 400 or above, a body
\* without usage, with a usage that is no object, a body that is no JSON
\* object or no JSON), the logging step writes the usage record, with
\* usage.total_tokens where the answer has it and 0 otherwise.
C25_TokensBestEffort ==
    [][ \A r \in DOMAIN req :
          (req[r].pc = "dispatched" /\ req'[r] # req[r])
          => /\ req'[r].pc = "logged"
             /\ \E l \in usage_logs' \ usage_logs :
                   /\ l.api_key_id = req[r].key_record.id
                   /\ l.status_code = req[r].resp.status_code
                   /\ l.total_tokens = C25_Expected(req[r].resp) ]_vars

---------------------------------------------------------------------------
(* Properties of request bodies (BodySpec).                                *)

\* C26: a dispatch whose body does not parse, or parses to something that
\* is no JSON object, never reaches the decrypt of the raw secret and makes
\* no outbound call, and once its credential is resolved it ends with 400
\* "Invalid JSON body".
C26_MalformedBodyRejected ==
    \A r \in ReqIds :
        LET q == req[r]
        IN  (q.route # "none" /\ (~q.body.valid \/ ~q.body.isobj))
            => /\ ~q.dec
               /\ q.calls = 0
               /\ (q.pc = "done" /\ q.key_record.id # 0)
                  => /\ q.status = 400
                     /\ q.detail = "Invalid JSON body"

---------------------------------------------------------------------------
(* Further properties of deletes among dispatches (CascadeSpec).           *)

\* C27: in every state every usage record refers to a credential that is
\* in the store, whatever the order in which the delete of a credential
\* and the steps of a dispatch that resolved it come.
C27_NoDanglingUsage ==
    \A l \in usage_logs : \E k \in api_keys : k.id = l.api_key_id

---------------------------------------------------------------------------
(* Properties of the anonymous route among owners (AnonSpec).              *)

\* the credentials whose owner was issued the secret a request presents,
\* for the provider and name of the request's path
C28_IssuedTo(q) ==
    { k \in api_keys :
        /\ k.api_provider = q.provider
        /\ k.name_slug = q.name_slug
        /\ decrypt_api_key(k.unified_key_encrypted)
              = Decrypted(ProvidedKey(q.x_api_key, q.authorization)) }

\* C28: an anonymous request that passes authentication has resolved the
\* credential of the owner the presented unified secret was issued to,
\* whoever that owner is among those who hold a credential of the provider
\* and name; it is dispatched with that credential's raw secret and its
\* usage record carries that owner.
C28_AnonymousOwnCredential ==
    /\ [][ \A r \in ReqIds :
             ( /\ Accepts(r)
               /\ req'[r] # req[r]
               /\ req'[r].route = "unified"
               /\ req'[r].pc = "resolved" )
             => \A k \in C28_IssuedTo(req'[r]) :
                   /\ req'[r].key_record.id = k.id
                   /\ req'[r].key_record.user_id = k.user_id
                   /\ req'[r].key_record.encrypted_key = k.encrypted_key ]_vars
    /\ [][ \A r \in ReqIds :
             (req[r].route = "unified" /\ req'[r].logs = req[r].logs + 1)
             => \A k \in C28_IssuedTo(req[r]) :
                   /\ Decrypted(req[r].api_key) = decrypt_api_key(k.encrypted_key)
                   /\ \A l \in usage_logs' \ usage_logs : l.user_id = k.user_id ]_vars

---------------------------------------------------------------------------
(* Properties of every provider (ProviderSpec).                            *)

\* the provider detect_provider returns for the raw secret of a credential
C29_DetectedFor(k) == Detect(decrypt_api_key(k.encrypted_key).plain).provider

\* C29: a request to the unified endpoint of a created credential, with its
\* unified secret, whose provider as detect_provider returned it has a
\* branch in _proxy_request, is not answered 404 nor "Proxy not
\* implemented", and once past the decrypt it has made that provider's
\* outbound call.
C29_TagReachesBranch ==
    \A r \in ReqIds :
        LET q == req[r]
        IN  ( /\ q.route = "unified"
              /\ q.pc = "done"
              /\ \E k \in api_keys :
                    /\ q.provider = EndpointParams(k.unified_endpoint).provider
                    /\ q.name_slug = EndpointParams(k.unified_endpoint).name_slug
                    /\ C29_DetectedFor(k) \in ProxyBranches )
            => /\ q.status # 404
               /\ q.detail # "Proxy not implemented"
               /\ q.dec => q.calls >= 1

---------------------------------------------------------------------------
(* Further properties of transactions (TxnSpec).                           *)

\* the rows that stand against the INSERT of a create at its commit
C30_Clash(x) ==
    ExistingKeys(x.user, Slug(Detect(x.key).provider), Slug(x.name))

\* C30: of two creates of one owner for the same provider and name slug
\* that both passed the existence check, one is stored; the commit of the
\* other, which finds the first one's row, is answered 400 "Key name
\* already exists for this provider" and stores nothing.
C30_RaceGivesDuplicate ==
    /\ [](C4_Unique)
    /\ [][ \A t \in TxnIds :
             (add_key_commit(t) /\ C30_Clash(txn[t]) # {})
             => /\ api_keys' = api_keys
                /\ txn'[t].status = 400
                /\ last'.status = 400
                /\ last'.detail = "Key name already exists for this provider" ]_vars

=============================================================================
